---- MODULE Spec2Model ----
(***************************************************************************)
(* Esports calendar feed endpoint (functions/api/calendar.ts): request     *)
(* validation, team data loading, tournament filter and the ICS, JSON Feed *)
(* and Atom renderers.                                                     *)
(*                                                                         *)
(* Text is modelled as a sequence of UTF-16 code units.  A code unit is    *)
(* written as a one-unit string ("a", "\\", "\n"); a unit outside ASCII is *)
(* written by its code ("u2014").  An optional value (a parameter that     *)
(* searchParams.get may return null for, a JSON field that may be missing) *)
(* is a sequence of length 0 (null / undefined) or 1 (the value).          *)
(***************************************************************************)
EXTENDS Integers, Sequences, FiniteSets, Bags, TLC

VARIABLES
    bucket,          \* env.DATA_BUCKET: key -> optional TeamData
    assets,          \* env.ASSETS: path -> optional TeamData
    pc,              \* the await the invocation of the latest turn waits at:
                     \* "DATA_BUCKET.get", "object.json", "ASSETS.fetch",
                     \* "resp.json"; "done" once it has returned its response,
                     \* "idle" when that invocation has ended
    req,             \* its request
    reminderMinutes, \* local of onRequest
    slugs,           \* local of onRequest
    idx,             \* index in slugs of the team being loaded
    teamDataList,    \* local of onRequest
    trace,           \* reads and renderer calls made by the invocation
    resp,            \* the response returned
    suspended,       \* the locals of the other invocations in flight, each
                     \* at an await or with its response not yet delivered
    text,            \* argument of the escaper under check
    escaped,         \* its result
    page             \* the globals of the page script, its pending calls and timers

vars == <<bucket, assets, pc, req, reminderMinutes, slugs, idx, teamDataList,
          trace, resp, suspended, text, escaped, page>>

-----------------------------------------------------------------------------
(* Bounds of the model *)

\* most slugs in one teams parameter
MaxTeams == 2

\* longest text handed to an escaper on its own
MaxLen == 3

\* most invocations of onRequest in flight at a time
MaxInvocations == 2

-----------------------------------------------------------------------------
(* Strings *)

Null == <<>>
Some(v) == <<v>>
IsPresent(opt) == opt # <<>>
\* JavaScript truthiness of an optional string: present and not empty
Truthy(opt) == opt # <<>> /\ opt[1] # <<>>

Range(s) == {s[i] : i \in DOMAIN s}

UpperChars ==
    <<"A", "B", "C", "D", "E", "F", "G", "H", "I", "J", "K", "L", "M",
      "N", "O", "P", "Q", "R", "S", "T", "U", "V", "W", "X", "Y", "Z">>

LowerChars ==
    <<"a", "b", "c", "d", "e", "f", "g", "h", "i", "j", "k", "l", "m",
      "n", "o", "p", "q", "r", "s", "t", "u", "v", "w", "x", "y", "z">>

DigitChars == <<"0", "1", "2", "3", "4", "5", "6", "7", "8", "9">>

\* the code units \s matches and trim() strips, among those of the model
WhiteSpace == {" ", "\t", "\n", "\r"}

IsDigit(c) == c \in Range(DigitChars)

DigitValue(c) == (CHOOSE i \in DOMAIN DigitChars : DigitChars[i] = c) - 1

LowerUnit(c) ==
    IF c \in Range(UpperChars)
    THEN LowerChars[CHOOSE i \in DOMAIN UpperChars : UpperChars[i] = c]
    ELSE c

\* String.prototype.toLowerCase
toLowerCase(t) == [i \in 1..Len(t) |-> LowerUnit(t[i])]

\* concatenation of the texts parts[lo..hi], by halves
RECURSIVE ConcatRange(_, _, _)
ConcatRange(parts, lo, hi) ==
    IF lo > hi THEN <<>>
    ELSE IF lo = hi THEN parts[lo]
    ELSE ConcatRange(parts, lo, (lo + hi) \div 2)
             \o ConcatRange(parts, (lo + hi) \div 2 + 1, hi)

\* concatenation of a sequence of texts
Concat(parts) == ConcatRange(parts, 1, Len(parts))

\* t.replace(/\s+/g, "-"): every run of white space becomes one hyphen
ReplaceSpaceRuns(t) ==
    Concat([i \in 1..Len(t) |->
               IF t[i] \in WhiteSpace
               THEN (IF i > 1 /\ t[i - 1] \in WhiteSpace THEN <<>> ELSE <<"-">>)
               ELSE <<t[i]>>])

\* t.replace(/_/g, "-")
ReplaceUnderscores(t) == [i \in 1..Len(t) |-> IF t[i] = "_" THEN "-" ELSE t[i]]

\* String.prototype.includes: pat occurs in t at some offset
StartsAt(t, pat, i) ==
    /\ i + Len(pat) - 1 <= Len(t)
    /\ \A k \in 1..Len(pat) : t[i + k - 1] = pat[k]

includes(t, pat) == \E i \in 1..(Len(t) + 1) : StartsAt(t, pat, i)

\* String.prototype.trim
trim(t) ==
    LET keep == {i \in 1..Len(t) : t[i] \notin WhiteSpace} IN
    IF keep = {} THEN <<>>
    ELSE LET lo == CHOOSE i \in keep : \A j \in keep : i <= j
             hi == CHOOSE i \in keep : \A j \in keep : j <= i
         IN SubSeq(t, lo, hi)

\* String.prototype.split(","), from position i on
RECURSIVE SplitComma(_, _)
SplitComma(t, i) ==
    LET commas == {j \in i..Len(t) : t[j] = ","} IN
    IF commas = {} THEN <<SubSeq(t, i, Len(t))>>
    ELSE LET c == CHOOSE j \in commas : \A k \in commas : j <= k
         IN <<SubSeq(t, i, c - 1)>> \o SplitComma(t, c + 1)

\* Array.prototype.join
join(parts, sep) ==
    Concat([i \in 1..(2 * Len(parts) - 1) |->
               IF i % 2 = 1 THEN parts[(i + 1) \div 2] ELSE sep])

\* String(n) for an integer n
RECURSIVE NumberToString(_)
NumberToString(n) ==
    IF n < 0 THEN <<"-">> \o NumberToString(-n)
    ELSE IF n < 10 THEN <<DigitChars[n + 1]>>
    ELSE NumberToString(n \div 10) \o <<DigitChars[(n % 10) + 1]>>

\* String.prototype.padStart(width, "0")
RECURSIVE padStart(_, _)
padStart(t, width) == IF Len(t) >= width THEN t ELSE padStart(<<"0">> \o t, width)

\* parseInt(t, 10): leading white space is skipped, an optional sign is read,
\* then decimal digits up to the first other code unit; NaN when there is no
\* digit.  The result is [nan |-> TRUE] or [nan |-> FALSE, value |-> n].
RECURSIVE DigitsValue(_, _, _)
DigitsValue(t, i, acc) ==
    IF i > Len(t) \/ ~IsDigit(t[i]) THEN acc
    ELSE DigitsValue(t, i + 1, acc * 10 + DigitValue(t[i]))

NaN == [nan |-> TRUE, value |-> 0]

parseInt(t) ==
    LET body == {i \in 1..Len(t) : t[i] \notin WhiteSpace}
        first == IF body = {} THEN Len(t) + 1
                 ELSE CHOOSE i \in body : \A j \in body : i <= j
        signed == first <= Len(t) /\ t[first] \in {"+", "-"}
        start == IF signed THEN first + 1 ELSE first
        magnitude == DigitsValue(t, start, 0)
    IN IF start > Len(t) \/ ~IsDigit(t[start]) THEN NaN
       ELSE [nan |-> FALSE,
             value |-> IF signed /\ t[first] = "-" THEN -magnitude ELSE magnitude]

\* Array.prototype.sort(compare): stable.  compared[i][j] is what compare
\* returns for the i-th and the j-th element; an element goes after the last
\* one that compare does not order after it.
InsertOrdered(sorted, x, compared) ==
    LET before == {i \in DOMAIN sorted : compared[sorted[i]][x] <= 0}
        at == IF before = {} THEN 0 ELSE CHOOSE i \in before : \A j \in before : j <= i
    IN SubSeq(sorted, 1, at) \o <<x>> \o SubSeq(sorted, at + 1, Len(sorted))

sort(items, compared) ==
    LET upTo[i \in 0..Len(items)] ==
            IF i = 0 THEN <<>> ELSE InsertOrdered(upTo[i - 1], i, compared)
    IN [k \in DOMAIN items |-> items[upTo[Len(items)][k]]]

-----------------------------------------------------------------------------
(* Dates.  A time value is kept in seconds with the milliseconds beside it  *)
(* ([s, ms]): timestamp * 1000 does not fit the integers of the checker.    *)

\* new Date(timestamp * 1000)
DateOfSeconds(timestamp) == [s |-> timestamp, ms |-> 0]

\* proleptic Gregorian date of a day number (days since 1970-01-01)
CivilFromDays(days) ==
    LET z == days + 719468
        era == z \div 146097
        doe == z - era * 146097
        yoe == (doe - doe \div 1460 + doe \div 36524 - doe \div 146096) \div 365
        doy == doe - (365 * yoe + yoe \div 4 - yoe \div 100)
        mp == (5 * doy + 2) \div 153
        m == IF mp < 10 THEN mp + 3 ELSE mp - 9
    IN [year |-> yoe + era * 400 + (IF m <= 2 THEN 1 ELSE 0),
        month |-> m,
        day |-> doy - (153 * mp + 2) \div 5 + 1]

DaysFromCivil(year, month, day) ==
    LET y == IF month <= 2 THEN year - 1 ELSE year
        era == y \div 400
        yoe == y - era * 400
        mp == IF month > 2 THEN month - 3 ELSE month + 9
        doy == (153 * mp + 2) \div 5 + day - 1
        doe == yoe * 365 + yoe \div 4 - yoe \div 100 + doy
    IN era * 146097 + doe - 719468

getUTCFullYear(d) == CivilFromDays(d.s \div 86400).year
\* getUTCMonth() + 1
UTCMonthNumber(d) == CivilFromDays(d.s \div 86400).month
getUTCDate(d) == CivilFromDays(d.s \div 86400).day
getUTCHours(d) == (d.s % 86400) \div 3600
getUTCMinutes(d) == (d.s % 3600) \div 60
getUTCSeconds(d) == d.s % 60

\* pad without the padding
pad_NoPad(n) == NumberToString(n)

\* (n) => String(n).padStart(2, "0")
pad(n) == padStart(NumberToString(n), 2)

\* Date.prototype.toISOString, for years 0..9999: YYYY-MM-DDTHH:mm:ss.sssZ
toISOString(d) ==
    padStart(NumberToString(getUTCFullYear(d)), 4) \o <<"-">>
        \o pad(UTCMonthNumber(d)) \o <<"-">> \o pad(getUTCDate(d)) \o <<"T">>
        \o pad(getUTCHours(d)) \o <<":">> \o pad(getUTCMinutes(d)) \o <<":">>
        \o pad(getUTCSeconds(d)) \o <<".">> \o padStart(NumberToString(d.ms), 3)
        \o <<"Z">>

\* new Date(iso) for a text toISOString wrote
DateParse(iso) ==
    LET num(a, b) == DigitsValue(SubSeq(iso, a, b), 1, 0) IN
    [s |-> DaysFromCivil(num(1, 4), num(6, 7), num(9, 10)) * 86400
            + num(12, 13) * 3600 + num(15, 16) * 60 + num(18, 19),
     ms |-> num(21, 23)]

\* a.getTime() - b.getTime(), by its sign
TimeDifference(a, b) ==
    IF a.s # b.s THEN (IF a.s > b.s THEN 1 ELSE -1)
    ELSE a.ms - b.ms

-----------------------------------------------------------------------------
(* Literal text of the source *)

\* the text generateICS writes
CalendarText ==
      \* \r\n
    [ CRLF |->
          <<"\r", "\n">>,
      \* , 
      CommaSpace |->
          <<",", " ">>,
      \* BEGIN:VCALENDAR
      BEGIN_VCALENDAR |->
          <<"B", "E", "G", "I", "N", ":", "V", "C", "A", "L", "E", "N", "D", "A", "R">>,
      \* VERSION:2.0
      VERSION |->
          <<"V", "E", "R", "S", "I", "O", "N", ":", "2", ".", "0">>,
      \* PRODID:-//Esports Calendar//
      PRODID |->
          <<"P", "R", "O", "D", "I", "D", ":", "-", "/", "/", "E", "s", "p", "o", "r", "t", "s", " ",
          "C", "a", "l", "e", "n", "d", "a", "r", "/", "/">>,
      \* //
      SlashSlash |->
          <<"/", "/">>,
      \* CALSCALE:GREGORIAN
      CALSCALE |->
          <<"C", "A", "L", "S", "C", "A", "L", "E", ":", "G", "R", "E", "G", "O", "R", "I", "A", "N">>,
      \* METHOD:PUBLISH
      METHOD |->
          <<"M", "E", "T", "H", "O", "D", ":", "P", "U", "B", "L", "I", "S", "H">>,
      \* X-WR-CALNAME:
      CALNAME |->
          <<"X", "-", "W", "R", "-", "C", "A", "L", "N", "A", "M", "E", ":">>,
      \*  Matches
      Matches |->
          <<" ", "M", "a", "t", "c", "h", "e", "s">>,
      \* X-PUBLISHED-TTL:PT4H
      TTL |->
          <<"X", "-", "P", "U", "B", "L", "I", "S", "H", "E", "D", "-", "T", "T", "L", ":", "P", "T",
          "4", "H">>,
      \* END:VCALENDAR
      END_VCALENDAR |->
          <<"E", "N", "D", ":", "V", "C", "A", "L", "E", "N", "D", "A", "R">> ]

\* the text generateVEvent writes
EventText ==
      \* BEGIN:VEVENT
    [ BEGIN_VEVENT |->
          <<"B", "E", "G", "I", "N", ":", "V", "E", "V", "E", "N", "T">>,
      \* UID:
      UID |->
          <<"U", "I", "D", ":">>,
      \* -vs-
      vs_ |->
          <<"-", "v", "s", "-">>,
      \* -
      Hyphen |->
          <<"-">>,
      \* @esports-calendar
      AtCalendar |->
          <<"@", "e", "s", "p", "o", "r", "t", "s", "-", "c", "a", "l", "e", "n", "d", "a", "r">>,
      \* DTSTART:
      DTSTART |->
          <<"D", "T", "S", "T", "A", "R", "T", ":">>,
      \* DTEND:
      DTEND |->
          <<"D", "T", "E", "N", "D", ":">>,
      \* SUMMARY:
      SUMMARY |->
          <<"S", "U", "M", "M", "A", "R", "Y", ":">>,
      \* DESCRIPTION:
      DESCRIPTION |->
          <<"D", "E", "S", "C", "R", "I", "P", "T", "I", "O", "N", ":">>,
      \* STATUS:CONFIRMED
      STATUS |->
          <<"S", "T", "A", "T", "U", "S", ":", "C", "O", "N", "F", "I", "R", "M", "E", "D">>,
      \* URL:
      URL |->
          <<"U", "R", "L", ":">>,
      \* TRANSP:TRANSPARENT
      TRANSP |->
          <<"T", "R", "A", "N", "S", "P", ":", "T", "R", "A", "N", "S", "P", "A", "R", "E", "N", "T">>,
      \* BEGIN:VALARM
      BEGIN_VALARM |->
          <<"B", "E", "G", "I", "N", ":", "V", "A", "L", "A", "R", "M">>,
      \* ACTION:DISPLAY
      ALARM_ACTION |->
          <<"A", "C", "T", "I", "O", "N", ":", "D", "I", "S", "P", "L", "A", "Y">>,
      \* TRIGGER:-PT
      TRIGGER |->
          <<"T", "R", "I", "G", "G", "E", "R", ":", "-", "P", "T">>,
      \* M
      M |->
          <<"M">>,
      \* END:VALARM
      END_VALARM |->
          <<"E", "N", "D", ":", "V", "A", "L", "A", "R", "M">>,
      \* END:VEVENT
      END_VEVENT |->
          <<"E", "N", "D", ":", "V", "E", "V", "E", "N", "T">>,
      \*  
      Space |->
          <<" ">>,
      \*  vs 
      vs |->
          <<" ", "v", "s", " ">>,
      \* Tournament: 
      Tournament |->
          <<"T", "o", "u", "r", "n", "a", "m", "e", "n", "t", ":", " ">>,
      \* \\n\\nMore info: 
      MoreInfo |->
          <<"\\", "n", "\\", "n", "M", "o", "r", "e", " ", "i", "n", "f", "o", ":", " ">>,
      \* \\n\\n(Completed match)
      Completed_match |->
          <<"\\", "n", "\\", "n", "(", "C", "o", "m", "p", "l", "e", "t", "e", "d", " ", "m", "a",
          "t", "c", "h", ")">>,
      \*  starts in 
      starts_in |->
          <<" ", "s", "t", "a", "r", "t", "s", " ", "i", "n", " ">>,
      \*  minutes!
      minutes |->
          <<" ", "m", "i", "n", "u", "t", "e", "s", "!">> ]

\* the text formatICSDate and toISOString write
DateText ==
      \* T
    [ T |->
          <<"T">>,
      \* Z
      Z |->
          <<"Z">> ]

\* the text generateJSONFeed writes
JsonFeedText ==
      \* https://jsonfeed.org/version/1.1
    [ JsonFeedVersion |->
          <<"h", "t", "t", "p", "s", ":", "/", "/", "j", "s", "o", "n", "f", "e", "e", "d", ".", "o",
          "r", "g", "/", "v", "e", "r", "s", "i", "o", "n", "/", "1", ".", "1">>,
      \*  Match Schedule
      MatchSchedule |->
          <<" ", "M", "a", "t", "c", "h", " ", "S", "c", "h", "e", "d", "u", "l", "e">>,
      \* Upcoming and recent matches for 
      FeedDescription |->
          <<"U", "p", "c", "o", "m", "i", "n", "g", " ", "a", "n", "d", " ", "r", "e", "c", "e", "n",
          "t", " ", "m", "a", "t", "c", "h", "e", "s", " ", "f", "o", "r", " ">>,
      \* upcoming
      upcoming |->
          <<"u", "p", "c", "o", "m", "i", "n", "g">>,
      \* completed
      completed |->
          <<"c", "o", "m", "p", "l", "e", "t", "e", "d">> ]

\* the text generateAtomFeed writes
AtomText ==
      \* Upcoming
    [ Upcoming |->
          <<"U", "p", "c", "o", "m", "i", "n", "g">>,
      \* Completed
      Completed |->
          <<"C", "o", "m", "p", "l", "e", "t", "e", "d">>,
      \*  \u2014 
      Dash |->
          <<" ", "u2014", " ">>,
      \*   <entry>\n    <id>urn:esports-calendar:
      AtomEntry1 |->
          <<" ", " ", "<", "e", "n", "t", "r", "y", ">", "\n", " ", " ", " ", " ", "<", "i", "d",
          ">", "u", "r", "n", ":", "e", "s", "p", "o", "r", "t", "s", "-", "c", "a", "l", "e", "n",
          "d", "a", "r", ":">>,
      \* </id>\n    <title>
      AtomEntry2 |->
          <<"<", "/", "i", "d", ">", "\n", " ", " ", " ", " ", "<", "t", "i", "t", "l", "e", ">">>,
      \* </title>\n    <updated>
      AtomEntry3 |->
          <<"<", "/", "t", "i", "t", "l", "e", ">", "\n", " ", " ", " ", " ", "<", "u", "p", "d",
          "a", "t", "e", "d", ">">>,
      \* </updated>\n    <summary>
      AtomEntry4 |->
          <<"<", "/", "u", "p", "d", "a", "t", "e", "d", ">", "\n", " ", " ", " ", " ", "<", "s",
          "u", "m", "m", "a", "r", "y", ">">>,
      \* </summary>\n    <link href="
      AtomEntry5 |->
          <<"<", "/", "s", "u", "m", "m", "a", "r", "y", ">", "\n", " ", " ", " ", " ", "<", "l",
          "i", "n", "k", " ", "h", "r", "e", "f", "=", "\"">>,
      \* " rel="alternate"/>\n    <category term="
      AtomEntry6 |->
          <<"\"", " ", "r", "e", "l", "=", "\"", "a", "l", "t", "e", "r", "n", "a", "t", "e", "\"",
          "/", ">", "\n", " ", " ", " ", " ", "<", "c", "a", "t", "e", "g", "o", "r", "y", " ",
          "t", "e", "r", "m", "=", "\"">>,
      \* "/>\n  </entry>\n
      AtomEntry7 |->
          <<"\"", "/", ">", "\n", " ", " ", "<", "/", "e", "n", "t", "r", "y", ">", "\n">>,
      \* <?xml version="1.0" encoding="UTF-8"?>\n<feed xmlns="http://www.w3.org/2005/Atom">\n  <id>urn:esports-calendar:
      AtomFeed1 |->
          <<"<", "?", "x", "m", "l", " ", "v", "e", "r", "s", "i", "o", "n", "=", "\"", "1", ".",
          "0", "\"", " ", "e", "n", "c", "o", "d", "i", "n", "g", "=", "\"", "U", "T", "F", "-",
          "8", "\"", "?", ">", "\n", "<", "f", "e", "e", "d", " ", "x", "m", "l", "n", "s", "=",
          "\"", "h", "t", "t", "p", ":", "/", "/", "w", "w", "w", ".", "w", "3", ".", "o", "r",
          "g", "/", "2", "0", "0", "5", "/", "A", "t", "o", "m", "\"", ">", "\n", " ", " ", "<",
          "i", "d", ">", "u", "r", "n", ":", "e", "s", "p", "o", "r", "t", "s", "-", "c", "a", "l",
          "e", "n", "d", "a", "r", ":">>,
      \* </id>\n  <title>
      AtomFeed2 |->
          <<"<", "/", "i", "d", ">", "\n", " ", " ", "<", "t", "i", "t", "l", "e", ">">>,
      \*  Match Schedule</title>\n  <subtitle>Upcoming and recent matches</subtitle>\n  <updated>
      AtomFeed3 |->
          <<" ", "M", "a", "t", "c", "h", " ", "S", "c", "h", "e", "d", "u", "l", "e", "<", "/", "t",
          "i", "t", "l", "e", ">", "\n", " ", " ", "<", "s", "u", "b", "t", "i", "t", "l", "e",
          ">", "U", "p", "c", "o", "m", "i", "n", "g", " ", "a", "n", "d", " ", "r", "e", "c", "e",
          "n", "t", " ", "m", "a", "t", "c", "h", "e", "s", "<", "/", "s", "u", "b", "t", "i", "t",
          "l", "e", ">", "\n", " ", " ", "<", "u", "p", "d", "a", "t", "e", "d", ">">>,
      \* </updated>\n  <link href="
      AtomFeed4 |->
          <<"<", "/", "u", "p", "d", "a", "t", "e", "d", ">", "\n", " ", " ", "<", "l", "i", "n",
          "k", " ", "h", "r", "e", "f", "=", "\"">>,
      \* " rel="self" type="application/atom+xml"/>\n  <generator>esports-calendar</generator>\n
      AtomFeed5 |->
          <<"\"", " ", "r", "e", "l", "=", "\"", "s", "e", "l", "f", "\"", " ", "t", "y", "p", "e",
          "=", "\"", "a", "p", "p", "l", "i", "c", "a", "t", "i", "o", "n", "/", "a", "t", "o",
          "m", "+", "x", "m", "l", "\"", "/", ">", "\n", " ", " ", "<", "g", "e", "n", "e", "r",
          "a", "t", "o", "r", ">", "e", "s", "p", "o", "r", "t", "s", "-", "c", "a", "l", "e", "n",
          "d", "a", "r", "<", "/", "g", "e", "n", "e", "r", "a", "t", "o", "r", ">", "\n">>,
      \* </feed>\n
      AtomFeed6 |->
          <<"<", "/", "f", "e", "e", "d", ">", "\n">> ]

\* the entities of xmlEscape
XmlEntities ==
      \* &amp;
    [ amp |->
          <<"&", "a", "m", "p", ";">>,
      \* &lt;
      lt |->
          <<"&", "l", "t", ";">>,
      \* &gt;
      gt |->
          <<"&", "g", "t", ";">>,
      \* &quot;
      quot |->
          <<"&", "q", "u", "o", "t", ";">>,
      \* &apos;
      apos |->
          <<"&", "a", "p", "o", "s", ";">> ]

\* the text onRequest compares with and answers
HandlerText ==
      \* ics
    [ ics |->
          <<"i", "c", "s">>,
      \* json
      json |->
          <<"j", "s", "o", "n">>,
      \* rss
      rss |->
          <<"r", "s", "s">>,
      \* GET
      GET |->
          <<"G", "E", "T">>,
      \* OPTIONS
      OPTIONS |->
          <<"O", "P", "T", "I", "O", "N", "S">>,
      \* .json
      dotjson |->
          <<".", "j", "s", "o", "n">>,
      \* /data/
      dataPath |->
          <<"/", "d", "a", "t", "a", "/">>,
      \* Method not allowed
      MethodNotAllowed |->
          <<"M", "e", "t", "h", "o", "d", " ", "n", "o", "t", " ", "a", "l", "l", "o", "w", "e", "d">>,
      \* Invalid 'reminder' parameter. Must be an integer between 0 and 1440.
      InvalidReminder |->
          <<"I", "n", "v", "a", "l", "i", "d", " ", "'", "r", "e", "m", "i", "n", "d", "e", "r", "'",
          " ", "p", "a", "r", "a", "m", "e", "t", "e", "r", ".", " ", "M", "u", "s", "t", " ", "b",
          "e", " ", "a", "n", " ", "i", "n", "t", "e", "g", "e", "r", " ", "b", "e", "t", "w", "e",
          "e", "n", " ", "0", " ", "a", "n", "d", " ", "1", "4", "4", "0", ".">>,
      \* Missing 'teams' parameter. Usage: /api/calendar?teams=Los_Ratones,Fnatic
      MissingTeams |->
          <<"M", "i", "s", "s", "i", "n", "g", " ", "'", "t", "e", "a", "m", "s", "'", " ", "p", "a",
          "r", "a", "m", "e", "t", "e", "r", ".", " ", "U", "s", "a", "g", "e", ":", " ", "/", "a",
          "p", "i", "/", "c", "a", "l", "e", "n", "d", "a", "r", "?", "t", "e", "a", "m", "s", "=",
          "L", "o", "s", "_", "R", "a", "t", "o", "n", "e", "s", ",", "F", "n", "a", "t", "i", "c">>,
      \* Invalid team slug: 
      InvalidSlug |->
          <<"I", "n", "v", "a", "l", "i", "d", " ", "t", "e", "a", "m", " ", "s", "l", "u", "g", ":",
          " ">>,
      \* No data found for the requested teams
      NoData |->
          <<"N", "o", " ", "d", "a", "t", "a", " ", "f", "o", "u", "n", "d", " ", "f", "o", "r", " ",
          "t", "h", "e", " ", "r", "e", "q", "u", "e", "s", "t", "e", "d", " ", "t", "e", "a", "m",
          "s">>,
      \* Unknown format. Use: ics, json, or rss
      UnknownFormat |->
          <<"U", "n", "k", "n", "o", "w", "n", " ", "f", "o", "r", "m", "a", "t", ".", " ", "U", "s",
          "e", ":", " ", "i", "c", "s", ",", " ", "j", "s", "o", "n", ",", " ", "o", "r", " ", "r",
          "s", "s">> ]

-----------------------------------------------------------------------------
(* Order of strings: by UTF-16 code units *)

\* the code units U+0020..U+007E in order
AsciiPrintable ==
    <<" ", "!", "\"", "#", "$", "%", "&", "'", "(", ")", "*", "+", ",", "-", ".", "/", "0",
      "1", "2", "3", "4", "5", "6", "7", "8", "9", ":", ";", "<", "=", ">", "?", "@", "A", "B",
      "C", "D", "E", "F", "G", "H", "I", "J", "K", "L", "M", "N", "O", "P", "Q", "R", "S", "T",
      "U", "V", "W", "X", "Y", "Z", "[", "\\", "]", "^", "_", "u0060", "a", "b", "c", "d", "e",
      "f", "g", "h", "i", "j", "k", "l", "m", "n", "o", "p", "q", "r", "s", "t", "u", "v", "w",
      "x", "y", "z", "{", "|", "}", "~">>


CodeUnit(c) ==
    IF c \in Range(AsciiPrintable)
    THEN 31 + (CHOOSE i \in DOMAIN AsciiPrintable : AsciiPrintable[i] = c)
    ELSE CASE c = "\t" -> 9
           [] c = "\n" -> 10
           [] c = "\r" -> 13
           [] c = "u2014" -> 8212
           [] c = "u2605" -> 9733
           [] c = "uD83C" -> 55356
           [] c = "uDDEA" -> 56810
           [] c = "uDDFA" -> 56826

\* the comparison Array.prototype.sort() makes without a compare function
DefaultCompare(a, b) ==
    LET differ == {i \in DOMAIN a \cap DOMAIN b : a[i] # b[i]} IN
    IF differ = {}
    THEN (IF Len(a) < Len(b) THEN -1 ELSE IF Len(a) > Len(b) THEN 1 ELSE 0)
    ELSE LET i == CHOOSE k \in differ : \A j \in differ : k <= j
         IN IF CodeUnit(a[i]) < CodeUnit(b[i]) THEN -1 ELSE 1

-----------------------------------------------------------------------------
(* Escapers *)

\* icsEscape with the backslash missing from the character class
icsEscape_KeepsBackslash(t) ==
    Concat([i \in 1..Len(t) |-> IF t[i] \in {";", ","} THEN <<"\\", t[i]>> ELSE <<t[i]>>])

\* text.replace(/[\\;,]/g, (c) => "\\" + c)
icsEscape(t) ==
    Concat([i \in 1..Len(t) |->
               IF t[i] \in {"\\", ";", ","} THEN <<"\\", t[i]>> ELSE <<t[i]>>])

\* t.replace(/c/g, entity)
ReplaceUnit(t, c, entity) ==
    Concat([i \in 1..Len(t) |-> IF t[i] = c THEN entity ELSE <<t[i]>>])

xmlEscape(t) ==
    LET a == ReplaceUnit(t, "&", XmlEntities.amp)
        b == ReplaceUnit(a, "<", XmlEntities.lt)
        c == ReplaceUnit(b, ">", XmlEntities.gt)
        d == ReplaceUnit(c, "\"", XmlEntities.quot)
    IN ReplaceUnit(d, "'", XmlEntities.apos)

-----------------------------------------------------------------------------
(* ICS generation *)

formatICSDate(timestamp) ==
    LET d == DateOfSeconds(timestamp) IN
    NumberToString(getUTCFullYear(d)) \o pad(UTCMonthNumber(d)) \o pad(getUTCDate(d))
        \o DateText.T \o pad(getUTCHours(d)) \o pad(getUTCMinutes(d)) \o pad(getUTCSeconds(d))
        \o DateText.Z

\* the opponent token of the UID
UidOpponentSlug(match) ==
    toLowerCase(ReplaceUnderscores(ReplaceSpaceRuns(match.opponent)))

\* the canonical UID: both participants, sorted
EventUid(team, match) ==
    LET both == <<toLowerCase(team.slug), UidOpponentSlug(match)>>
        teams == sort(both, [i \in DOMAIN both |->
                                [j \in DOMAIN both |-> DefaultCompare(both[i], both[j])]])
    IN teams[1] \o EventText.vs_ \o teams[2] \o EventText.Hyphen \o NumberToString(match.timestamp)
           \o EventText.AtCalendar

EventSummary(team, match) ==
    icsEscape(team.emoji \o EventText.Space \o team.short_name \o EventText.vs \o match.opponent)

EventDescription(team, match) ==
    icsEscape(EventText.Tournament \o match.tournament)
        \o (IF Truthy(match.url) THEN icsEscape(EventText.MoreInfo \o match.url[1]) ELSE <<>>)
        \o (IF ~match.is_upcoming THEN icsEscape(EventText.Completed_match) ELSE <<>>)

\* EventAlarm with the test of is_upcoming left out
EventAlarm_AnyMatch(team, match, minutes) ==
    IF minutes > 0
    THEN <<EventText.BEGIN_VALARM,
           EventText.ALARM_ACTION,
           EventText.DESCRIPTION \o icsEscape(team.name \o EventText.vs \o match.opponent \o EventText.starts_in
                                          \o NumberToString(minutes) \o EventText.minutes),
           EventText.TRIGGER \o NumberToString(minutes) \o EventText.M,
           EventText.END_VALARM>>
    ELSE <<>>

\* the alarm lines: for upcoming matches only, when the reminder is positive
EventAlarm(team, match, minutes) ==
    IF match.is_upcoming /\ minutes > 0
    THEN <<EventText.BEGIN_VALARM,
           EventText.ALARM_ACTION,
           EventText.DESCRIPTION \o icsEscape(team.name \o EventText.vs \o match.opponent \o EventText.starts_in
                                          \o NumberToString(minutes) \o EventText.minutes),
           EventText.TRIGGER \o NumberToString(minutes) \o EventText.M,
           EventText.END_VALARM>>
    ELSE <<>>

\* the URL line: only for a match with a url
EventUrl(match) == IF Truthy(match.url) THEN <<EventText.URL \o match.url[1]>> ELSE <<>>

\* EventTransp with the test inverted
EventTransp_Inverted(match) == IF match.is_upcoming THEN <<EventText.TRANSP>> ELSE <<>>

\* the TRANSP line: only for a match that is not upcoming
EventTransp(match) == IF ~match.is_upcoming THEN <<EventText.TRANSP>> ELSE <<>>

\* the lines of one VEVENT
generateVEvent(team, match, minutes) ==
    LET start == formatICSDate(match.timestamp)
        end == formatICSDate(match.timestamp + 2 * 60 * 60)
    IN <<EventText.BEGIN_VEVENT,
         EventText.UID \o EventUid(team, match),
         EventText.DTSTART \o start,
         EventText.DTEND \o end,
         EventText.SUMMARY \o EventSummary(team, match),
         EventText.DESCRIPTION \o EventDescription(team, match),
         EventText.STATUS>>
           \o EventUrl(match)
           \o EventTransp(match)
           \o EventAlarm(team, match, minutes)
           \o <<EventText.END_VEVENT>>

\* teams.map((t) => t.team.name).join(", ")
TeamNames(teams) == join([i \in 1..Len(teams) |-> teams[i].team.name], CalendarText.CommaSpace)

\* every (team, match) pair, team by team, in the order of each matches array
AllMatches(teams) ==
    Concat([t \in 1..Len(teams) |->
               [i \in 1..Len(teams[t].matches) |->
                   [team |-> teams[t].team, match |-> teams[t].matches[i]]]])

\* EventLines going through the pairs from the last to the first
EventLines_Reversed(pairs, minutes) ==
    Concat([i \in 1..Len(pairs) |->
               generateVEvent(pairs[Len(pairs) + 1 - i].team, pairs[Len(pairs) + 1 - i].match, minutes)])

EventLines(pairs, minutes) ==
    Concat([i \in 1..Len(pairs) |-> generateVEvent(pairs[i].team, pairs[i].match, minutes)])

IcsLines(teams, minutes) ==
    <<CalendarText.BEGIN_VCALENDAR,
      CalendarText.VERSION,
      CalendarText.PRODID \o TeamNames(teams) \o CalendarText.SlashSlash,
      CalendarText.CALSCALE,
      CalendarText.METHOD,
      CalendarText.CALNAME \o TeamNames(teams) \o CalendarText.Matches,
      CalendarText.TTL>>
        \o EventLines(AllMatches(teams), minutes)
        \o <<CalendarText.END_VCALENDAR>>

\* generateICS without the CRLF after the last line
generateICS_NoFinalCRLF(teams, minutes) == join(IcsLines(teams, minutes), CalendarText.CRLF)

\* lines.join("\r\n") + "\r\n"
generateICS(teams, minutes) == join(IcsLines(teams, minutes), CalendarText.CRLF) \o CalendarText.CRLF

-----------------------------------------------------------------------------
(* JSON Feed v1.1 *)

\* the opponent token of the feed item and entry ids
FeedOpponentSlug(match) == toLowerCase(ReplaceSpaceRuns(match.opponent))

FeedItemId(team, match) ==
    toLowerCase(team.slug) \o EventText.Hyphen \o NumberToString(match.timestamp) \o EventText.Hyphen
        \o FeedOpponentSlug(match)

JsonItem(team, match) ==
    [id |-> FeedItemId(team, match),
     title |-> team.emoji \o EventText.Space \o team.short_name \o EventText.vs \o match.opponent,
     date_published |-> toISOString(DateOfSeconds(match.timestamp)),
     url |-> IF Truthy(match.url) THEN match.url[1] ELSE team.liquipedia_url,
     tags |-> <<IF match.is_upcoming THEN JsonFeedText.upcoming ELSE JsonFeedText.completed, match.tournament>>,
     content_text |-> (IF match.is_upcoming THEN AtomText.Upcoming ELSE AtomText.Completed)
                          \o AtomText.Dash \o match.tournament]

\* (a, b) => new Date(b.date_published).getTime() - new Date(a.date_published).getTime()
CompareItems(a, b) ==
    TimeDifference(DateParse(b.date_published), DateParse(a.date_published))

JsonItems(teams) ==
    LET pairs == AllMatches(teams) IN
    LET items == [i \in 1..Len(pairs) |-> JsonItem(pairs[i].team, pairs[i].match)] IN
    sort(items, [i \in DOMAIN items |->
                    [j \in DOMAIN items |-> CompareItems(items[i], items[j])]])

generateJSONFeed(teams, requestUrl) ==
    [version |-> JsonFeedText.JsonFeedVersion,
     title |-> TeamNames(teams) \o JsonFeedText.MatchSchedule,
     home_page_url |-> requestUrl.origin,
     feed_url |-> requestUrl.href,
     description |-> JsonFeedText.FeedDescription \o TeamNames(teams),
     items |-> JsonItems(teams)]

-----------------------------------------------------------------------------
(* Atom *)

\* CompareMatches with its operands swapped
CompareMatches_Ascending(a, b) == a.match.timestamp - b.match.timestamp

\* (a, b) => b.match.timestamp - a.match.timestamp
CompareMatches(a, b) == b.match.timestamp - a.match.timestamp

AtomSorted(teams) ==
    LET allMatches == AllMatches(teams) IN
    sort(allMatches, [i \in DOMAIN allMatches |->
                         [j \in DOMAIN allMatches |-> CompareMatches(allMatches[i], allMatches[j])]])

\* one <entry>; match.url is present
AtomEntry(team, match) ==
    LET dt == toISOString(DateOfSeconds(match.timestamp))
        status == IF match.is_upcoming THEN AtomText.Upcoming ELSE AtomText.Completed
        title == xmlEscape(team.emoji \o EventText.Space \o team.short_name \o EventText.vs \o match.opponent)
        tournament == xmlEscape(match.tournament)
        entryId == FeedItemId(team, match)
    IN AtomText.AtomEntry1 \o entryId \o AtomText.AtomEntry2 \o title \o AtomText.AtomEntry3 \o dt
           \o AtomText.AtomEntry4 \o status \o AtomText.Dash \o tournament \o AtomText.AtomEntry5
           \o xmlEscape(match.url[1]) \o AtomText.AtomEntry6 \o toLowerCase(status)
           \o AtomText.AtomEntry7

AtomEntries(pairs) ==
    Concat([i \in 1..Len(pairs) |-> AtomEntry(pairs[i].team, pairs[i].match)])

\* xmlEscape(match.url) throws a TypeError when the match has no url
AtomThrows(teams) ==
    \E i \in 1..Len(AllMatches(teams)) : ~IsPresent(AllMatches(teams)[i].match.url)

\* the document, when no entry throws; now is new Date().toISOString()
AtomDocument(teams, requestUrl, now) ==
    LET teamNames == TeamNames(teams)
        teamSlugs == join([i \in 1..Len(teams) |-> toLowerCase(teams[i].team.slug)],
                          EventText.Hyphen)
    IN AtomText.AtomFeed1 \o xmlEscape(teamSlugs) \o AtomText.AtomFeed2 \o xmlEscape(teamNames)
           \o AtomText.AtomFeed3 \o now \o AtomText.AtomFeed4 \o xmlEscape(requestUrl.href)
           \o AtomText.AtomFeed5 \o AtomEntries(AtomSorted(teams)) \o AtomText.AtomFeed6

\* [threw |-> TRUE] or the document
generateAtomFeed(teams, requestUrl, now) ==
    IF AtomThrows(teams) THEN [threw |-> TRUE, body |-> <<>>]
    ELSE [threw |-> FALSE, body |-> AtomDocument(teams, requestUrl, now)]

\* the text of the stored team records and of the request URL
FixtureText ==
      \* Fnatic
    [ Fnatic |->
          <<"F", "n", "a", "t", "i", "c">>,
      \* FNC
      FNC |->
          <<"F", "N", "C">>,
      \* \U0001f1ea\U0001f1fa
      FlagEU |->
          <<"uD83C", "uDDEA", "uD83C", "uDDFA">>,
      \* leagueoflegends
      Game |->
          <<"l", "e", "a", "g", "u", "e", "o", "f", "l", "e", "g", "e", "n", "d", "s">>,
      \* https://liquipedia.net/leagueoflegends/Fnatic
      FnaticUrl |->
          <<"h", "t", "t", "p", "s", ":", "/", "/", "l", "i", "q", "u", "i", "p", "e", "d", "i", "a",
          ".", "n", "e", "t", "/", "l", "e", "a", "g", "u", "e", "o", "f", "l", "e", "g", "e", "n",
          "d", "s", "/", "F", "n", "a", "t", "i", "c">>,
      \* G2 Esports
      G2Name |->
          <<"G", "2", " ", "E", "s", "p", "o", "r", "t", "s">>,
      \* G2_Esports
      G2Slug |->
          <<"G", "2", "_", "E", "s", "p", "o", "r", "t", "s">>,
      \* G2
      G2 |->
          <<"G", "2">>,
      \* https://liquipedia.net/leagueoflegends/G2_Esports
      G2Url |->
          <<"h", "t", "t", "p", "s", ":", "/", "/", "l", "i", "q", "u", "i", "p", "e", "d", "i", "a",
          ".", "n", "e", "t", "/", "l", "e", "a", "g", "u", "e", "o", "f", "l", "e", "g", "e", "n",
          "d", "s", "/", "G", "2", "_", "E", "s", "p", "o", "r", "t", "s">>,
      \* MAD Lions
      MADLions |->
          <<"M", "A", "D", " ", "L", "i", "o", "n", "s">>,
      \* LEC 2025 Spring
      LEC |->
          <<"L", "E", "C", " ", "2", "0", "2", "5", " ", "S", "p", "r", "i", "n", "g">>,
      \* https://liquipedia.net/leagueoflegends/LEC/2025
      LECUrl |->
          <<"h", "t", "t", "p", "s", ":", "/", "/", "l", "i", "q", "u", "i", "p", "e", "d", "i", "a",
          ".", "n", "e", "t", "/", "l", "e", "a", "g", "u", "e", "o", "f", "l", "e", "g", "e", "n",
          "d", "s", "/", "L", "E", "C", "/", "2", "0", "2", "5">>,
      \* 2 : 1
      Score |->
          <<"2", " ", ":", " ", "1">>,
      \* https://example.com
      Origin |->
          <<"h", "t", "t", "p", "s", ":", "/", "/", "e", "x", "a", "m", "p", "l", "e", ".", "c", "o",
          "m">>,
      \* /api/calendar
      Path |->
          <<"/", "a", "p", "i", "/", "c", "a", "l", "e", "n", "d", "a", "r">> ]

\* the text of a stored team record with characters the formats escape
SampleText ==
      \* Tom's R&D, Inc
    [ RnDName |->
          <<"T", "o", "m", "'", "s", " ", "R", "&", "D", ",", " ", "I", "n", "c">>,
      \* T_RnD
      RnDSlug |->
          <<"T", "_", "R", "n", "D">>,
      \* R&D
      RnDShort |->
          <<"R", "&", "D">>,
      \* \u2605
      Star |->
          <<"u2605">>,
      \* https://liquipedia.net/lol/T_RnD
      RnDUrl |->
          <<"h", "t", "t", "p", "s", ":", "/", "/", "l", "i", "q", "u", "i", "p", "e", "d", "i", "a",
          ".", "n", "e", "t", "/", "l", "o", "l", "/", "T", "_", "R", "n", "D">>,
      \* A<B> "C"
      OppSpecial |->
          <<"A", "<", "B", ">", " ", "\"", "C", "\"">>,
      \* K;O Cup\\1, LEC
      TourSpecial |->
          <<"K", ";", "O", " ", "C", "u", "p", "\\", "1", ",", " ", "L", "E", "C">>,
      \* Worlds 2025
      Worlds |->
          <<"W", "o", "r", "l", "d", "s", " ", "2", "0", "2", "5">>,
      \* https://x.test/?a=1&b=2
      QueryUrl |->
          <<"h", "t", "t", "p", "s", ":", "/", "/", "x", ".", "t", "e", "s", "t", "/", "?", "a", "=",
          "1", "&", "b", "=", "2">> ]

\* the values requests give their parameters
ParamText ==
      \* Ghost
    [ Ghost |->
          <<"G", "h", "o", "s", "t">>,
      \* ../etc/passwd
      Traversal |->
          <<".", ".", "/", "e", "t", "c", "/", "p", "a", "s", "s", "w", "d">>,
      \* t_rnd
      rnd |->
          <<"t", "_", "r", "n", "d">>,
      \* xml
      xml |->
          <<"x", "m", "l">>,
      \* lec
      lec |->
          <<"l", "e", "c">>,
      \* SPRING
      SPRING |->
          <<"S", "P", "R", "I", "N", "G">>,
      \* zz
      zz |->
          <<"z", "z">>,
      \* 0
      r0 |->
          <<"0">>,
      \* 1440
      r1440 |->
          <<"1", "4", "4", "0">>,
      \* -1
      rMinus1 |->
          <<"-", "1">>,
      \* 1441
      r1441 |->
          <<"1", "4", "4", "1">>,
      \* abc
      abc |->
          <<"a", "b", "c">>,
      \* 5x
      r5x |->
          <<"5", "x">>,
      \* POST
      POST |->
          <<"P", "O", "S", "T">> ]

\* the names of the query parameters, as a URL writes them
QueryText ==
      \* teams=
    [ teamsKey |->
          <<"t", "e", "a", "m", "s", "=">>,
      \* format=
      formatKey |->
          <<"f", "o", "r", "m", "a", "t", "=">>,
      \* tournament=
      tournamentKey |->
          <<"t", "o", "u", "r", "n", "a", "m", "e", "n", "t", "=">>,
      \* reminder=
      reminderKey |->
          <<"r", "e", "m", "i", "n", "d", "e", "r", "=">> ]

-----------------------------------------------------------------------------
(* Team data.  TEAM_A and TEAM_B are the records of the test suite; TEAM_C   *)
(* is a record whose free text holds every character an escaper rewrites,    *)
(* and one match without url.                                                *)

\* tomorrow and yesterday of the test suite, as fixed instants:
\* 2026-01-02T00:00:00Z and 2025-12-31T00:00:00Z
FUTURE_TS == 1767312000

PAST_TS == 1767139200

\* 2025-12-31T23:00:00Z: the match ends in the next year
LATE_TS == 1767222000

TEAM_A ==
    [team |-> [name |-> FixtureText.Fnatic, slug |-> FixtureText.Fnatic, short_name |-> FixtureText.FNC,
               emoji |-> FixtureText.FlagEU, game |-> FixtureText.Game, liquipedia_url |-> FixtureText.FnaticUrl],
     matches |-> <<[timestamp |-> FUTURE_TS, opponent |-> FixtureText.G2Name, tournament |-> FixtureText.LEC,
                    url |-> Some(FixtureText.LECUrl), is_upcoming |-> TRUE, score |-> Null],
                   [timestamp |-> PAST_TS, opponent |-> FixtureText.MADLions, tournament |-> FixtureText.LEC,
                    url |-> Some(FixtureText.LECUrl), is_upcoming |-> FALSE,
                    score |-> Some(FixtureText.Score)]>>]

TEAM_B ==
    [team |-> [name |-> FixtureText.G2Name, slug |-> FixtureText.G2Slug, short_name |-> FixtureText.G2,
               emoji |-> FixtureText.FlagEU, game |-> FixtureText.Game, liquipedia_url |-> FixtureText.G2Url],
     matches |-> <<[timestamp |-> FUTURE_TS, opponent |-> FixtureText.Fnatic, tournament |-> FixtureText.LEC,
                    url |-> Some(FixtureText.LECUrl), is_upcoming |-> TRUE, score |-> Null]>>]

TEAM_C ==
    [team |-> [name |-> SampleText.RnDName, slug |-> SampleText.RnDSlug, short_name |-> SampleText.RnDShort,
               emoji |-> SampleText.Star, game |-> FixtureText.Game, liquipedia_url |-> SampleText.RnDUrl],
     matches |-> <<[timestamp |-> LATE_TS, opponent |-> SampleText.OppSpecial,
                    tournament |-> SampleText.TourSpecial, url |-> Some(SampleText.QueryUrl),
                    is_upcoming |-> TRUE, score |-> Null],
                   [timestamp |-> PAST_TS, opponent |-> FixtureText.Fnatic, tournament |-> SampleText.Worlds,
                    url |-> Null, is_upcoming |-> FALSE, score |-> Null]>>]

\* the objects of the R2 bucket, by key
BucketObjects ==
    [k \in {toLowerCase(FixtureText.Fnatic) \o HandlerText.dotjson, toLowerCase(FixtureText.G2Slug) \o HandlerText.dotjson} |->
        IF k = toLowerCase(FixtureText.Fnatic) \o HandlerText.dotjson THEN TEAM_A ELSE TEAM_B]

\* the static assets, by URL
AssetFiles ==
    [u \in {FixtureText.Origin \o HandlerText.dataPath \o ParamText.rnd \o HandlerText.dotjson} |-> TEAM_C]

-----------------------------------------------------------------------------
(* Requests *)

\* the slugs a teams parameter is made of: three with data, one without, one
\* that is no slug
SlugPool == {FixtureText.Fnatic, FixtureText.G2Slug, ParamText.rnd, ParamText.Ghost, ParamText.Traversal}

SlugLists ==
    {s \in UNION {[1..n -> SlugPool] : n \in 0..MaxTeams} :
        \A i, j \in DOMAIN s : i # j => s[i] # s[j]}

TeamsParams == {Null} \cup {Some(join(s, <<",">>)) : s \in SlugLists}

FormatParams == {Null, Some(HandlerText.ics), Some(HandlerText.json), Some(HandlerText.rss), Some(ParamText.xml)}

TournamentParams == {Null, Some(ParamText.lec), Some(ParamText.SPRING), Some(ParamText.zz)}

ReminderParams ==
    {Null, Some(ParamText.r0), Some(ParamText.r1440), Some(ParamText.rMinus1), Some(ParamText.r1441), Some(ParamText.abc), Some(ParamText.r5x)}

\* the URL a request with these parameters has
RequestHref(teams, format, tournament, reminder) ==
    LET given == SelectSeq(<<<<QueryText.teamsKey, teams>>, <<QueryText.formatKey, format>>,
                             <<QueryText.tournamentKey, tournament>>, <<QueryText.reminderKey, reminder>>>>,
                           LAMBDA p : IsPresent(p[2]))
        pairs == [i \in 1..Len(given) |-> given[i][1] \o given[i][2][1]]
    IN FixtureText.Origin \o FixtureText.Path \o (IF pairs = <<>> THEN <<>> ELSE <<"?">> \o join(pairs, <<"&">>))

Request(method, teams, format, tournament, reminder) ==
    [method |-> method, teams |-> teams, format |-> format, tournament |-> tournament,
     reminder |-> reminder,
     url |-> [origin |-> FixtureText.Origin,
              href |-> RequestHref(teams, format, tournament, reminder)]]

GetRequests ==
    {Request(HandlerText.GET, t, f, q, m) :
        t \in TeamsParams, f \in FormatParams, q \in TournamentParams, m \in ReminderParams}

OtherRequests ==
    {Request(m, Some(FixtureText.Fnatic), Null, Null, Null) : m \in {HandlerText.OPTIONS, ParamText.POST}}

Requests == GetRequests \cup OtherRequests

\* the requests of invocations that are in flight together: two teams from
\* the bucket as a calendar and as a JSON feed, one as an Atom feed, one with
\* a tournament filter, one from the assets
OverlapRequests ==
    {Request(HandlerText.GET, Some(join(<<FixtureText.Fnatic, FixtureText.G2Slug>>, <<",">>)),
             Null, Null, Null),
     Request(HandlerText.GET, Some(join(<<FixtureText.Fnatic, FixtureText.G2Slug>>, <<",">>)),
             Some(HandlerText.json), Null, Null),
     Request(HandlerText.GET, Some(FixtureText.Fnatic), Some(HandlerText.rss), Null, Null),
     Request(HandlerText.GET, Some(FixtureText.Fnatic), Null, Some(ParamText.lec), Null),
     Request(HandlerText.GET, Some(ParamText.rnd), Null, Null, Null)}

\* new Date().toISOString() at the time of a render
NowValues == {toISOString(DateOfSeconds(FUTURE_TS - 86400 + k)) : k \in {0, 1}}

-----------------------------------------------------------------------------
(* Request handling *)

\* SLUG_PATTERN that only asks for a text that is not empty
SLUG_PATTERN_AnyText(slug) == slug # <<>>

\* /^[a-zA-Z0-9_-]+$/
SLUG_PATTERN(slug) ==
    /\ slug # <<>>
    /\ \A i \in DOMAIN slug :
          slug[i] \in Range(LowerChars) \cup Range(UpperChars) \cup Range(DigitChars)
                          \cup {"_", "-"}

\* headers of new Response(body, init) for a text body
TextHeaders == {<<"Content-Type", "text/plain;charset=UTF-8">>}

SetHeader(headers, name, value) ==
    {h \in headers : h[1] # name} \cup {<<name, value>>}

Response(status, headers, body, json) ==
    [status |-> status, headers |-> headers, body |-> body, json |-> json]

corsResponse(response) ==
    [response EXCEPT !.headers =
        SetHeader(SetHeader(SetHeader(@, "Access-Control-Allow-Origin", "*"),
                            "Access-Control-Allow-Methods", "GET, OPTIONS"),
                  "Access-Control-Allow-Headers", "Content-Type")]

\* url.searchParams.get(name) || fallback
ParamOr(param, fallback) == IF Truthy(param) THEN param[1] ELSE fallback

\* url.searchParams.get("format") || "ics"
FormatOf(r) == ParamOr(r.format, HandlerText.ics)

TournamentFilterOf(r) == ParamOr(r.tournament, <<>>)

\* the reminder: 30 without the parameter, else parseInt of it; NaN and
\* values outside 0..1440 are refused
ReminderOf(r) ==
    IF ~IsPresent(r.reminder) THEN [ok |-> TRUE, minutes |-> 30]
    ELSE LET parsed == parseInt(r.reminder[1]) IN
         IF parsed.nan \/ parsed.value < 0 \/ parsed.value > 1440
         THEN [ok |-> FALSE, minutes |-> 30]
         ELSE [ok |-> TRUE, minutes |-> parsed.value]

\* teamsParam.split(",").map((s) => s.trim()).filter(Boolean)
SlugsOf(r) ==
    LET parts == SplitComma(ParamOr(r.teams, <<>>), 1) IN
    SelectSeq([i \in 1..Len(parts) |-> trim(parts[i])], LAMBDA s : s # <<>>)

FirstInvalid(list) ==
    LET bad == {i \in DOMAIN list : ~SLUG_PATTERN(list[i])} IN
    CHOOSE i \in bad : \A j \in bad : i <= j

\* the response of the synchronous checks, or none when the request passes
Validate(r) ==
    IF r.method = HandlerText.OPTIONS
    THEN Some(corsResponse(Response(204, {}, <<>>, Null)))
    ELSE IF r.method # HandlerText.GET
    THEN Some(corsResponse(Response(405, TextHeaders, HandlerText.MethodNotAllowed, Null)))
    ELSE IF ~ReminderOf(r).ok
    THEN Some(corsResponse(Response(400, TextHeaders, HandlerText.InvalidReminder, Null)))
    ELSE IF SlugsOf(r) = <<>>
    THEN Some(corsResponse(Response(400, TextHeaders, HandlerText.MissingTeams, Null)))
    ELSE IF \E i \in DOMAIN SlugsOf(r) : ~SLUG_PATTERN(SlugsOf(r)[i])
    THEN Some(corsResponse(Response(400, TextHeaders,
                                    HandlerText.InvalidSlug \o SlugsOf(r)[FirstInvalid(SlugsOf(r))],
                                    Null)))
    ELSE Null

\* no page is open
NoPage == <<>>

NoRequest == Request(<<>>, Null, Null, Null, Null)

NoResponse == Response(0, {}, <<>>, Null)

\* the locals of an invocation that has not started, or has ended
NoInvocation ==
    [pc |-> "idle", req |-> NoRequest, reminderMinutes |-> 30, slugs |-> <<>>, idx |-> 0,
     teamDataList |-> <<>>, trace |-> <<>>, resp |-> NoResponse]

\* the locals of the invocation that ran in the latest turn of the event loop
Latest ==
    [pc |-> pc, req |-> req, reminderMinutes |-> reminderMinutes, slugs |-> slugs, idx |-> idx,
     teamDataList |-> teamDataList, trace |-> trace, resp |-> resp]

\* the invocations in flight
InFlight == IF pc = "idle" THEN suspended ELSE suspended (+) SetToBag({Latest})

\* the invocations in flight but inv
Others(inv) == InFlight (-) SetToBag({inv})

\* a turn of the event loop: one invocation runs from where it waits to its
\* next await or to its return, which leaves its locals as new, and the
\* others stay where they are
Turn(new, others) ==
    /\ pc' = new.pc
    /\ req' = new.req
    /\ reminderMinutes' = new.reminderMinutes
    /\ slugs' = new.slugs
    /\ idx' = new.idx
    /\ teamDataList' = new.teamDataList
    /\ trace' = new.trace
    /\ resp' = new.resp
    /\ suspended' = others
    /\ UNCHANGED <<page, assets, text, escaped>>

\* a stored object that cannot be read: get() or json() rejects for it
Unreadable == [unreadable |-> TRUE]

\* DATA_BUCKET.get(key) or object.json() throws; the catch of the loop body
\* takes over
BucketThrows(key) ==
    IsPresent(bucket) /\ key \in DOMAIN bucket[1] /\ bucket[1][key] = Unreadable

\* ASSETS.fetch(assetUrl) or resp.json() throws
AssetThrows(assetUrl) ==
    assetUrl \in DOMAIN assets /\ assets[assetUrl] = Unreadable

\* context.env.DATA_BUCKET.get(key), then object.json()
BucketGet(key) ==
    IF IsPresent(bucket) /\ key \in DOMAIN bucket[1] THEN Some(bucket[1][key]) ELSE Null

\* context.env.ASSETS.fetch(assetUrl), then resp.json() when resp.ok; a
\* rejection is caught and leaves data null
AssetsFetch(assetUrl) ==
    IF assetUrl \in DOMAIN assets /\ assets[assetUrl] # Unreadable
    THEN Some(assets[assetUrl]) ELSE Null

KeyOf(slug) == toLowerCase(slug) \o HandlerText.dotjson

AssetUrlOf(r, key) == r.url.origin \o HandlerText.dataPath \o key

\* the record a turn of the loading loop ends with for a slug: the one of R2,
\* that of ASSETS when R2 gave nothing
LoadData(slug) ==
    IF BucketThrows(KeyOf(slug)) THEN Null
    ELSE IF IsPresent(BucketGet(KeyOf(slug))) THEN BucketGet(KeyOf(slug))
    ELSE AssetsFetch(AssetUrlOf(req, KeyOf(slug)))

\* FilterMatches without toLowerCase on the tournament
FilterMatches_CaseSensitive(matches, filter) ==
    SelectSeq(matches, LAMBDA m : includes(m.tournament, filter))

\* teamData.matches.filter((m) => m.tournament.toLowerCase().includes(filter))
FilterMatches(matches, filter) ==
    SelectSeq(matches, LAMBDA m : includes(toLowerCase(m.tournament), filter))

\* the tournament filter, applied to every loaded team
FilterTeams(teams, tournamentFilter) ==
    IF tournamentFilter # <<>>
    THEN [i \in 1..Len(teams) |->
             [teams[i] EXCEPT !.matches = FilterMatches(@, toLowerCase(tournamentFilter))]]
    ELSE teams

CacheControl == <<"Cache-Control", "public, max-age=3600">>

\* the switch on format; [threw, response, calls]
\* a dispatch whose JSON feed carries the time of its render
Dispatch_Stamped(format, teams, minutes, requestUrl, now) ==
    IF format = HandlerText.ics
    THEN [threw |-> FALSE,
          calls |-> <<[op |-> "generateICS", arg |-> NumberToString(minutes)]>>,
          response |-> corsResponse(Response(200,
              {<<"Content-Type", "text/calendar; charset=utf-8">>, CacheControl,
               <<"Content-Disposition", "inline; filename=\"esports-calendar.ics\"">>},
              generateICS(teams, minutes), Null))]
    ELSE IF format = HandlerText.json
    THEN LET feed == generateJSONFeed(teams, requestUrl)
             stamped == [k \in DOMAIN feed \cup {"date_modified"} |->
                            IF k = "date_modified" THEN now ELSE feed[k]]
         IN [threw |-> FALSE,
             calls |-> <<[op |-> "generateJSONFeed", arg |-> <<>>]>>,
             response |-> corsResponse(Response(200,
                 {<<"Content-Type", "application/feed+json; charset=utf-8">>, CacheControl},
                 <<>>, Some(stamped)))]
    ELSE IF format = HandlerText.rss
    THEN [threw |-> generateAtomFeed(teams, requestUrl, now).threw,
          calls |-> <<[op |-> "generateAtomFeed", arg |-> now]>>,
          response |-> IF generateAtomFeed(teams, requestUrl, now).threw
                       THEN Response(500, {}, <<>>, Null)
                       ELSE corsResponse(Response(200,
                           {<<"Content-Type", "application/atom+xml; charset=utf-8">>,
                            CacheControl},
                           generateAtomFeed(teams, requestUrl, now).body, Null))]
    ELSE [threw |-> FALSE,
          calls |-> <<>>,
          response |-> corsResponse(Response(400, TextHeaders, HandlerText.UnknownFormat, Null))]

Dispatch(format, teams, minutes, requestUrl, now) ==
    IF format = HandlerText.ics
    THEN [threw |-> FALSE,
          calls |-> <<[op |-> "generateICS", arg |-> NumberToString(minutes)]>>,
          response |-> corsResponse(Response(200,
              {<<"Content-Type", "text/calendar; charset=utf-8">>, CacheControl,
               <<"Content-Disposition", "inline; filename=\"esports-calendar.ics\"">>},
              generateICS(teams, minutes), Null))]
    ELSE IF format = HandlerText.json
    THEN [threw |-> FALSE,
          calls |-> <<[op |-> "generateJSONFeed", arg |-> <<>>]>>,
          response |-> corsResponse(Response(200,
              {<<"Content-Type", "application/feed+json; charset=utf-8">>, CacheControl},
              <<>>, Some(generateJSONFeed(teams, requestUrl))))]
    ELSE IF format = HandlerText.rss
    THEN [threw |-> generateAtomFeed(teams, requestUrl, now).threw,
          calls |-> <<[op |-> "generateAtomFeed", arg |-> now]>>,
          response |-> IF generateAtomFeed(teams, requestUrl, now).threw
                       THEN Response(500, {}, <<>>, Null)
                       ELSE corsResponse(Response(200,
                           {<<"Content-Type", "application/atom+xml; charset=utf-8">>,
                            CacheControl},
                           generateAtomFeed(teams, requestUrl, now).body, Null))]
    ELSE [threw |-> FALSE,
          calls |-> <<>>,
          response |-> corsResponse(Response(400, TextHeaders, HandlerText.UnknownFormat, Null))]

\* NothingLoaded with the test left out
NothingLoaded_Never(list) == FALSE

\* teamDataList.length === 0
NothingLoaded(list) == Len(list) = 0

\* the store after teamData.matches = ... on the records it handed out
StoreAfterFilter(store, loaded, filtered) ==
    [k \in DOMAIN store |->
        IF \E i \in DOMAIN loaded : loaded[i] = store[k]
        THEN filtered[CHOOSE i \in DOMAIN loaded : loaded[i] = store[k]]
        ELSE store[k]]

\* the locals of the invocations that hold the records `loaded`, after
\* teamData.matches = ... was done on those records
HoldersAfterFilter(waiting, loaded, filtered) ==
    LET Seen(w) ==
            [w EXCEPT !.teamDataList =
                [i \in DOMAIN @ |->
                    IF \E j \in DOMAIN loaded : loaded[j] = @[i]
                    THEN filtered[CHOOSE j \in DOMAIN loaded : loaded[j] = @[i]]
                    ELSE @[i]]]
    IN [v \in {Seen(w) : w \in BagToSet(waiting)} |->
           Cardinality({pair \in BagToSet(waiting) \X (1..BagCardinality(waiting)) :
                           Seen(pair[1]) = v /\ pair[2] <= waiting[pair[1]]})]

\* const resp = await context.env.ASSETS.fetch(assetUrl.toString()) is reached
CallAssetsFetch(inv) ==
    [inv EXCEPT !.pc = "ASSETS.fetch",
                !.trace = Append(@, [op |-> "ASSETS.fetch",
                                     arg |-> AssetUrlOf(inv.req, KeyOf(inv.slugs[inv.idx]))])]

\* the body of the loop starts for slugs[idx] and runs to its first await
StartTurn(inv) ==
    IF IsPresent(bucket)
    THEN [inv EXCEPT !.pc = "DATA_BUCKET.get",
                     !.trace = Append(@, [op |-> "DATA_BUCKET.get",
                                          arg |-> KeyOf(inv.slugs[inv.idx])])]
    ELSE CallAssetsFetch(inv)

\* the body of the loop is left: the next slug is taken, or the loop ends
\* (pc "loop end", which the same turn goes on from)
EndTurn(inv) ==
    IF inv.idx < Len(inv.slugs)
    THEN StartTurn([inv EXCEPT !.idx = @ + 1])
    ELSE [inv EXCEPT !.pc = "loop end"]

\* if (data) teamDataList.push(data), and the body of the loop is left
Push(inv, data) == EndTurn([inv EXCEPT !.teamDataList = Append(@, data)])

\* onRequest from its start to its first await, or to its return when the
\* request is turned down
onRequest(r) ==
    LET start == [NoInvocation EXCEPT !.req = r, !.reminderMinutes = ReminderOf(r).minutes]
    IN IF IsPresent(Validate(r))
       THEN [start EXCEPT !.pc = "done", !.resp = Validate(r)[1]]
       ELSE StartTurn([start EXCEPT !.slugs = SlugsOf(r), !.idx = 1])

\* await DATA_BUCKET.get(key) is over: it rejected and the catch leaves the
\* body, or it gave an object and object.json() is called, or it gave null
\* and ASSETS is asked
AfterBucketGet(inv, rejected) ==
    IF rejected THEN EndTurn(inv)
    ELSE IF KeyOf(inv.slugs[inv.idx]) \in DOMAIN bucket[1] THEN [inv EXCEPT !.pc = "object.json"]
    ELSE CallAssetsFetch(inv)

\* await object.json() is over: it rejected, or it gave the record
AfterObjectJson(inv) ==
    IF BucketThrows(KeyOf(inv.slugs[inv.idx])) THEN EndTurn(inv)
    ELSE Push(inv, BucketGet(KeyOf(inv.slugs[inv.idx]))[1])

\* await ASSETS.fetch(assetUrl) is over: it rejected, or resp.ok holds and
\* resp.json() is called, or data stays null
AfterAssetsFetch(inv, rejected) ==
    IF rejected THEN EndTurn(inv)
    ELSE IF AssetUrlOf(inv.req, KeyOf(inv.slugs[inv.idx])) \in DOMAIN assets
    THEN [inv EXCEPT !.pc = "resp.json"]
    ELSE EndTurn(inv)

\* await resp.json() is over: it rejected, or it gave the record
AfterRespJson(inv) ==
    IF IsPresent(AssetsFetch(AssetUrlOf(inv.req, KeyOf(inv.slugs[inv.idx]))))
    THEN Push(inv, AssetsFetch(AssetUrlOf(inv.req, KeyOf(inv.slugs[inv.idx])))[1])
    ELSE EndTurn(inv)

\* onRequest after the loop: 404 when nothing was loaded; else the matches
\* are filtered and the feed is rendered
Respond(inv, now) ==
    IF NothingLoaded(inv.teamDataList)
    THEN [inv EXCEPT !.pc = "done",
                     !.resp = corsResponse(Response(404, TextHeaders, HandlerText.NoData, Null))]
    ELSE LET teams == FilterTeams(inv.teamDataList, TournamentFilterOf(inv.req))
             out == Dispatch(FormatOf(inv.req), teams, inv.reminderMinutes, inv.req.url, now)
         IN [inv EXCEPT !.pc = "done",
                        !.teamDataList = teams,
                        !.trace = @ \o out.calls,
                        !.resp = out.response]

\* inv has been resumed at its await and is at `after`: at its next await, or
\* at the end of the loop, from where it runs on to its return.  json is what
\* json() of a stored object resolves to: "parsed", a record made from the
\* object, as R2 gives it; or "stored", the stored record itself, as the
\* store of createMockContext gives it.  teamData.matches = ... is then an
\* assignment to the records of the store, which other invocations hold too.
RunOn(inv, after, json) ==
    IF after.pc # "loop end"
    THEN Turn(after, Others(inv)) /\ UNCHANGED bucket
    ELSE \E now \in NowValues :
         \E new \in {Respond(after, now)} :
            IF json = "stored" /\ IsPresent(bucket)
            THEN /\ Turn(new, HoldersAfterFilter(Others(inv), after.teamDataList,
                                                 new.teamDataList))
                 /\ bucket' = Some(StoreAfterFilter(bucket[1], after.teamDataList,
                                                    new.teamDataList))
            ELSE Turn(new, Others(inv)) /\ UNCHANGED bucket

\* the requests of a set that the runtime calls onRequest with: any while no
\* invocation is in flight; those of OverlapRequests while invocations of
\* OverlapRequests are in flight, fewer than MaxInvocations
Arriving(requests) ==
    IF InFlight = EmptyBag THEN requests
    ELSE IF /\ BagCardinality(InFlight) < MaxInvocations
            /\ \A w \in BagToSet(InFlight) : w.req \in OverlapRequests
    THEN requests \cap OverlapRequests
    ELSE {}

\* the runtime calls onRequest, which runs to its first await
Receive(r) ==
    /\ Turn(onRequest(r), InFlight)
    /\ UNCHANGED bucket

\* line 105: an invocation is resumed at await DATA_BUCKET.get(key)
AwaitBucketGet(json) ==
    \E inv \in BagToSet(InFlight) :
        /\ inv.pc = "DATA_BUCKET.get"
        /\ \E rejected \in {FALSE, BucketThrows(KeyOf(inv.slugs[inv.idx]))} :
           \E after \in {AfterBucketGet(inv, rejected)} : RunOn(inv, after, json)

\* line 107: an invocation is resumed at await object.json()
AwaitObjectJson(json) ==
    \E inv \in BagToSet(InFlight) :
        /\ inv.pc = "object.json"
        /\ \E after \in {AfterObjectJson(inv)} : RunOn(inv, after, json)

\* line 114: an invocation is resumed at await ASSETS.fetch(assetUrl)
AwaitAssetsFetch(json) ==
    \E inv \in BagToSet(InFlight) :
        /\ inv.pc = "ASSETS.fetch"
        /\ \E rejected \in {FALSE, AssetThrows(AssetUrlOf(inv.req, KeyOf(inv.slugs[inv.idx])))} :
           \E after \in {AfterAssetsFetch(inv, rejected)} : RunOn(inv, after, json)

\* line 116: an invocation is resumed at await resp.json()
AwaitRespJson(json) ==
    \E inv \in BagToSet(InFlight) :
        /\ inv.pc = "resp.json"
        /\ \E after \in {AfterRespJson(inv)} : RunOn(inv, after, json)

\* the response of an invocation is delivered and the invocation ends; its
\* locals are gone
Return ==
    \E inv \in BagToSet(InFlight) :
        /\ inv.pc = "done"
        /\ Turn(NoInvocation, Others(inv))
        /\ UNCHANGED bucket

-----------------------------------------------------------------------------
(* The endpoint over R2: invocations run one turn at a time, in any order    *)

Init ==
    /\ bucket = Some(BucketObjects)
    /\ assets = AssetFiles
    /\ pc = "idle"
    /\ req = NoRequest
    /\ reminderMinutes = 30
    /\ slugs = <<>>
    /\ idx = 0
    /\ teamDataList = <<>>
    /\ trace = <<>>
    /\ resp = NoResponse
    /\ suspended = EmptyBag
    /\ text = <<>>
    /\ escaped = <<>>
    /\ page = NoPage

Next ==
    \/ \E r \in Arriving(Requests) : Receive(r)
    \/ AwaitBucketGet("parsed")
    \/ AwaitObjectJson("parsed")
    \/ AwaitAssetsFetch("parsed")
    \/ AwaitRespJson("parsed")
    \/ Return

Spec == Init /\ [][Next]_vars

-----------------------------------------------------------------------------
(* icsEscape on its own: every text of at most MaxLen code units over the    *)
(* three characters it rewrites and one it does not                          *)

EscapeAlphabet == {"\\", ";", ",", "a"}

EscapeTexts == UNION {[1..n -> EscapeAlphabet] : n \in 0..MaxLen}

InitEscape ==
    /\ bucket = Null
    /\ assets = <<>>
    /\ pc = "idle"
    /\ req = NoRequest
    /\ reminderMinutes = 30
    /\ slugs = <<>>
    /\ idx = 0
    /\ teamDataList = <<>>
    /\ trace = <<>>
    /\ resp = NoResponse
    /\ suspended = EmptyBag
    /\ text \in EscapeTexts
    /\ escaped = <<>>
    /\ page = NoPage

Escape ==
    /\ pc = "idle"
    /\ escaped' = icsEscape(text)
    /\ pc' = "done"
    /\ UNCHANGED <<page, suspended, bucket, assets, req, reminderMinutes,
                   slugs, idx, teamDataList, trace, resp, text>>

NextEscape == Escape

SpecEscape == InitEscape /\ [][NextEscape]_vars

-----------------------------------------------------------------------------
(* Reading a response *)

HasHeader(name, value) == <<name, value>> \in resp.headers

\* the invocation has returned a feed of this kind
IcsRendered == pc = "done" /\ resp.status = 200
                   /\ HasHeader("Content-Type", "text/calendar; charset=utf-8")

JsonRendered == pc = "done" /\ resp.status = 200
                    /\ HasHeader("Content-Type", "application/feed+json; charset=utf-8")

AtomRendered == pc = "done" /\ resp.status = 200
                    /\ HasHeader("Content-Type", "application/atom+xml; charset=utf-8")

\* the elements of a set of integers, in increasing order
Ascending(S) ==
    LET rank == [i \in S |-> Cardinality({j \in S : j < i})] IN
    [k \in 1..Cardinality(S) |-> CHOOSE i \in S : rank[i] = k - 1]

\* the positions where pat occurs in t
Occurrences(t, pat) == {i \in 1..Len(t) : t[i] = pat[1] /\ StartsAt(t, pat, i)}

\* the lines of a text whose lines end with CRLF
LinesOf(t) ==
    LET ends == Ascending(Occurrences(t, CalendarText.CRLF)) IN
    [k \in 1..Len(ends) |-> SubSeq(t, IF k = 1 THEN 1 ELSE ends[k - 1] + 2, ends[k] - 1)]

\* the VEVENT blocks of a calendar, each from its BEGIN:VEVENT line to the
\* next END:VEVENT line
EventsOf(lines) ==
    LET begins == {i \in DOMAIN lines : lines[i] = EventText.BEGIN_VEVENT}
        ends == {i \in DOMAIN lines : lines[i] = EventText.END_VEVENT}
        first == Ascending(begins)
    IN [k \in 1..Len(first) |->
           SubSeq(lines, first[k],
                  CHOOSE e \in ends : e > first[k] /\ \A f \in ends : f > first[k] => e <= f)]

\* the VEVENT blocks of the calendar returned
ResponseEvents == EventsOf(LinesOf(resp.body))

\* the (team, match) pairs handed to the renderer
RenderedPairs == AllMatches(teamDataList)

\* the block holds an alarm: BEGIN:VALARM, later the trigger, later END:VALARM
HasAlarm(event) == EventText.BEGIN_VALARM \in Range(event)

AlarmWithTrigger(event, minutes) ==
    \E a, b, c \in DOMAIN event :
        /\ a < b /\ b < c
        /\ event[a] = EventText.BEGIN_VALARM
        /\ event[b] = EventText.TRIGGER \o NumberToString(minutes) \o EventText.M
        /\ event[c] = EventText.END_VALARM

-----------------------------------------------------------------------------
(* C2: in every calendar returned, the k-th VEVENT holds a VALARM block      *)
(* exactly when the k-th match is upcoming and the reminder is positive, and *)
(* the block then holds TRIGGER:-PT{reminderMinutes}M.                       *)
C2_AlarmIffUpcomingAndReminder ==
    IcsRendered =>
        LET events == ResponseEvents
            pairs == RenderedPairs
        IN /\ Len(events) = Len(pairs)
           /\ \A k \in DOMAIN events :
                 /\ HasAlarm(events[k]) <=> (pairs[k].match.is_upcoming /\ reminderMinutes > 0)
                 /\ HasAlarm(events[k]) => AlarmWithTrigger(events[k], reminderMinutes)

\* a calendar with reminder 30 that holds an event with the alarm and an
\* event without
C2_Witness ==
    /\ IcsRendered
    /\ reminderMinutes = 30
    /\ LET events == ResponseEvents IN
       /\ \E k \in DOMAIN events : AlarmWithTrigger(events[k], 30)
       /\ \E k \in DOMAIN events : ~HasAlarm(events[k])

-----------------------------------------------------------------------------
(* C3: in every calendar returned, the k-th VEVENT holds the line            *)
(* TRANSP:TRANSPARENT exactly when the k-th match is not upcoming.           *)
C3_TranspIffNotUpcoming ==
    IcsRendered =>
        LET events == ResponseEvents
            pairs == RenderedPairs
        IN /\ Len(events) = Len(pairs)
           /\ \A k \in DOMAIN events :
                 (EventText.TRANSP \in Range(events[k])) <=> (pairs[k].match.is_upcoming = FALSE)

\* a calendar that holds a completed event with the line and an upcoming
\* event without it
C3_Witness ==
    /\ IcsRendered
    /\ LET events == ResponseEvents
           pairs == RenderedPairs
       IN /\ \E k \in DOMAIN events :
                ~pairs[k].match.is_upcoming /\ EventText.TRANSP \in Range(events[k])
          /\ \E k \in DOMAIN events :
                pairs[k].match.is_upcoming /\ EventText.TRANSP \notin Range(events[k])

-----------------------------------------------------------------------------
\* a name or slug without its letter case and its choice of word separator
WordsOf(t) == toLowerCase([i \in 1..Len(t) |-> IF t[i] = "_" THEN " " ELSE t[i]])

Denotes(opponent, team) == WordsOf(opponent) \in {WordsOf(team.name), WordsOf(team.slug)}

SameMatch(a, b) ==
    /\ a.team # b.team
    /\ a.match.timestamp = b.match.timestamp
    /\ Denotes(a.match.opponent, b.team)
    /\ Denotes(b.match.opponent, a.team)

\* the UID line of a VEVENT block
UidLineOf(event) == CHOOSE l \in Range(event) : StartsAt(l, EventText.UID, 1)

(* C1: two teams that record the same match from their own side get the same *)
(* UID.  Two events of a calendar record the same match when they are of     *)
(* different teams, have the same timestamp, and the opponent text of each   *)
(* is the name or the slug of the other team, in any letter case and with    *)
(* spaces or underscores between the words.                                  *)
C1_SameMatchSameUid ==
    IcsRendered =>
        LET events == ResponseEvents
            pairs == RenderedPairs
        IN \A k, l \in DOMAIN events \cap DOMAIN pairs :
               SameMatch(pairs[k], pairs[l]) => UidLineOf(events[k]) = UidLineOf(events[l])

-----------------------------------------------------------------------------
\* Score: 
L_Score ==
    <<"S", "c", "o", "r", "e", ":", " ">>

\* the DESCRIPTION line of the event itself: the first one of the block
DescriptionLineOf(event) ==
    event[CHOOSE i \in DOMAIN event :
              /\ StartsAt(event[i], EventText.DESCRIPTION, 1)
              /\ \A j \in 1..(i - 1) : ~StartsAt(event[j], EventText.DESCRIPTION, 1)]

(* C4: in every calendar returned, the DESCRIPTION of the k-th VEVENT holds  *)
(* "Score: " and the score when the k-th match is completed and has a score, *)
(* and holds no "Score: " otherwise.                                         *)
C4_ScoreInDescription ==
    IcsRendered =>
        LET events == ResponseEvents
            pairs == RenderedPairs
        IN \A k \in DOMAIN events \cap DOMAIN pairs :
               IF ~pairs[k].match.is_upcoming /\ IsPresent(pairs[k].match.score)
               THEN includes(DescriptionLineOf(events[k]), L_Score \o pairs[k].match.score[1])
               ELSE ~includes(DescriptionLineOf(events[k]), L_Score)

-----------------------------------------------------------------------------
Count(t, c) == Cardinality({i \in DOMAIN t : t[i] = c})

\* what the document writes around its texts, and each entry around its own
FeedMarkup ==
    AtomText.AtomFeed1 \o AtomText.AtomFeed2 \o AtomText.AtomFeed3
        \o AtomText.AtomFeed4 \o AtomText.AtomFeed5 \o AtomText.AtomFeed6

EntryMarkup ==
    AtomText.AtomEntry1 \o AtomText.AtomEntry2 \o AtomText.AtomEntry3 \o AtomText.AtomEntry4
        \o AtomText.AtomEntry5 \o AtomText.AtomEntry6 \o AtomText.AtomEntry7

Entities == {XmlEntities.amp, XmlEntities.lt, XmlEntities.gt, XmlEntities.quot, XmlEntities.apos}

(* C5: an Atom document returned holds no &, <, >, " or ' that comes from    *)
(* team or match text: every & starts one of the five entities, and the      *)
(* other four occur as often as the markup of the feed and of its entries    *)
(* writes them.                                                              *)
C5_AtomEscapesEveryText ==
    AtomRendered =>
        LET body == resp.body
            entries == Len(RenderedPairs)
        IN /\ \A i \in DOMAIN body :
                 body[i] = "&" => \E e \in Entities : StartsAt(body, e, i)
           /\ \A c \in {"<", ">", "\"", "'"} :
                 Count(body, c) = Count(FeedMarkup, c) + entries * Count(EntryMarkup, c)

-----------------------------------------------------------------------------
EscapedByIcs == {"\\", ";", ","}

EscapedUpTo(t, i) == Cardinality({j \in 1..i : t[j] \in EscapedByIcs})

(* C6: icsEscape(text) is text with one backslash added before each          *)
(* backslash, semicolon and comma: the i-th code unit of text stands at      *)
(* position i plus the number of such characters up to it, a backslash       *)
(* stands before it when it is one of the three, and nothing else is there.  *)
C6_IcsEscapeAddsOneBackslash ==
    pc = "done" =>
        /\ Len(escaped) = Len(text) + EscapedUpTo(text, Len(text))
        /\ \A i \in DOMAIN text :
              /\ escaped[i + EscapedUpTo(text, i)] = text[i]
              /\ text[i] \in EscapedByIcs => escaped[i + EscapedUpTo(text, i) - 1] = "\\"

\* the three characters in one text, each with its backslash
C6_Witness ==
    /\ pc = "done"
    /\ text = <<"\\", ";", ",">>
    /\ escaped = <<"\\", "\\", "\\", ";", "\\", ",">>

-----------------------------------------------------------------------------
Orderings(n) == {p \in [1..n -> 1..n] : \A i, j \in 1..n : i # j => p[i] # p[j]}

NeverIncreasing(pairs, p) ==
    \A i, j \in DOMAIN p :
        i < j => pairs[p[i]].match.timestamp >= pairs[p[j]].match.timestamp

\* the text that opens an entry: "  <entry>"
EntryOpen == SubSeq(AtomText.AtomEntry1, 1, 9)

\* the <entry> elements of an Atom document, in document order
EntriesOf(body) ==
    LET starts == Ascending(Occurrences(body, EntryOpen))
        close == Len(body) - Len(AtomText.AtomFeed6) + 1
    IN [k \in 1..Len(starts) |->
           SubSeq(body, starts[k], (IF k < Len(starts) THEN starts[k + 1] ELSE close) - 1)]

(* C7: the items of a JSON Feed returned, and the entries of an Atom         *)
(* document returned, are the (team, match) pairs handed to the renderer,    *)
(* each once, in an order in which the timestamps never increase.            *)
C7_FeedsSortedPermutation ==
    /\ JsonRendered =>
          LET items == resp.json[1].items
              pairs == RenderedPairs
          IN /\ Len(items) = Len(pairs)
             /\ \E p \in Orderings(Len(pairs)) :
                   /\ NeverIncreasing(pairs, p)
                   /\ \A i \in DOMAIN items :
                         items[i] = JsonItem(pairs[p[i]].team, pairs[p[i]].match)
    /\ AtomRendered =>
          LET entries == EntriesOf(resp.body)
              pairs == RenderedPairs
          IN /\ Len(entries) = Len(pairs)
             /\ \E p \in Orderings(Len(pairs)) :
                   /\ NeverIncreasing(pairs, p)
                   /\ \A i \in DOMAIN entries :
                         entries[i] = AtomEntry(pairs[p[i]].team, pairs[p[i]].match)

\* an Atom document of three entries whose second entry is the third pair,
\* a later match than the second pair
C7_Witness ==
    /\ AtomRendered
    /\ LET entries == EntriesOf(resp.body)
           pairs == RenderedPairs
       IN /\ Len(pairs) = 3
          /\ Len(entries) = 3
          /\ pairs[3].match.timestamp > pairs[2].match.timestamp
          /\ entries[2] = AtomEntry(pairs[3].team, pairs[3].match)

-----------------------------------------------------------------------------
ContainsIgnoringCase(t, f) ==
    \E off \in 0..(Len(t) - Len(f)) :
        \A k \in 1..Len(f) : LowerUnit(t[off + k]) = LowerUnit(f[k])

\* the stored records of the slugs that have one, in the order of the slugs
ResolvedTeams ==
    LET found == SelectSeq(slugs, LAMBDA g : IsPresent(LoadData(g))) IN
    [i \in 1..Len(found) |-> LoadData(found[i])[1]]

ExpectedMatches(matches) ==
    IF Truthy(req.tournament)
    THEN SelectSeq(matches, LAMBDA m : ContainsIgnoringCase(m.tournament, req.tournament[1]))
    ELSE matches

RendererCalled ==
    \E i \in DOMAIN trace : trace[i].op \in {"generateICS", "generateJSONFeed", "generateAtomFeed"}

(* C8: when the handler renders, each loaded team keeps exactly the matches  *)
(* whose tournament holds the filter, letter case apart, in their stored     *)
(* order (all of them without a filter), and the feed returned, of any       *)
(* format, has one event, item or entry for each of them.                    *)
C8_FilterNarrowsEveryFormat ==
    (pc = "done" /\ RendererCalled) =>
        LET stored == ResolvedTeams IN
        /\ Len(teamDataList) = Len(stored)
        /\ \A i \in DOMAIN teamDataList :
              /\ teamDataList[i].team = stored[i].team
              /\ teamDataList[i].matches = ExpectedMatches(stored[i].matches)
        /\ IcsRendered => Len(ResponseEvents) = Len(RenderedPairs)
        /\ JsonRendered => Len(resp.json[1].items) = Len(RenderedPairs)
        /\ AtomRendered => Len(EntriesOf(resp.body)) = Len(RenderedPairs)

\* a JSON Feed for the filter "lec": a team with two stored matches keeps
\* the one of "K;O Cup\1, LEC"
C8_Witness ==
    /\ JsonRendered
    /\ req.tournament = Some(ParamText.lec)
    /\ \E i \in DOMAIN teamDataList :
          /\ Len(ResolvedTeams[i].matches) = 2
          /\ teamDataList[i].matches = <<ResolvedTeams[i].matches[1]>>
          /\ teamDataList[i].matches[1].tournament = SampleText.TourSpecial

-----------------------------------------------------------------------------
\* a text that is not empty and in which no digit occurs
\* the text is the decimal notation of an integer: digits, after a sign or not
IsNumeric(t) ==
    LET digits == IF t # <<>> /\ t[1] \in {"+", "-"} THEN SubSeq(t, 2, Len(t)) ELSE t
    IN digits # <<>> /\ \A i \in DOMAIN digits : IsDigit(digits[i])

RenderedWithReminder(v) ==
    /\ resp.body # HandlerText.InvalidReminder
    /\ reminderMinutes = v
    /\ IcsRendered =>
          /\ [op |-> "generateICS", arg |-> NumberToString(v)] \in Range(trace)
          /\ resp.body = generateICS(teamDataList, v)

(* C9: reminder 0 and 1440 are accepted and the calendar is rendered with    *)
(* that value; -1, 1441 and every text that is not the decimal notation of   *)
(* an integer are answered 400 before any read or render; without the        *)
(* parameter the reminder is 30.                                             *)
C9_ReminderBounds ==
    (pc = "done" /\ req.method = HandlerText.GET) =>
        /\ (\/ req.reminder \in {Some(ParamText.rMinus1), Some(ParamText.r1441)}
            \/ IsPresent(req.reminder) /\ ~IsNumeric(req.reminder[1]))
              => (resp.status = 400 /\ trace = <<>>)
        /\ req.reminder = Some(ParamText.r0) => RenderedWithReminder(0)
        /\ req.reminder = Some(ParamText.r1440) => RenderedWithReminder(1440)
        /\ req.reminder = Null => RenderedWithReminder(30)

-----------------------------------------------------------------------------
(* C10: a GET request whose format is none of ics, json, rss, its other      *)
(* parameters being valid, is answered 400 and no renderer runs.             *)
C10_UnknownFormatIs400 ==
    (/\ pc = "done"
     /\ req.method = HandlerText.GET
     /\ IsPresent(req.format)
     /\ req.format[1] \notin {HandlerText.ics, HandlerText.json, HandlerText.rss}
     /\ ~IsPresent(Validate(req)))
        => (resp.status = 400 /\ ~RendererCalled)

-----------------------------------------------------------------------------
\* the teams of the request have data, and no match of theirs passes the filter
NothingToShow ==
    /\ ResolvedTeams # <<>>
    /\ \A i \in DOMAIN ResolvedTeams : ExpectedMatches(ResolvedTeams[i].matches) = <<>>

\* the response is a feed of its format with nothing in it
EmptyFeed ==
    \/ /\ IcsRendered
       /\ LET lines == LinesOf(resp.body) IN
          /\ Len(lines) = 8
          /\ lines[1] = CalendarText.BEGIN_VCALENDAR
          /\ lines[8] = CalendarText.END_VCALENDAR
          /\ EventText.BEGIN_VEVENT \notin Range(lines)
          /\ SubSeq(resp.body, Len(resp.body) - 1, Len(resp.body)) = CalendarText.CRLF
    \/ /\ JsonRendered
       /\ resp.json[1].version = JsonFeedText.JsonFeedVersion
       /\ resp.json[1].items = <<>>
    \/ /\ AtomRendered
       /\ StartsAt(resp.body, AtomText.AtomFeed1, 1)
       /\ StartsAt(resp.body, AtomText.AtomFeed5 \o AtomText.AtomFeed6,
                   Len(resp.body) - Len(AtomText.AtomFeed5 \o AtomText.AtomFeed6) + 1)
       /\ EntriesOf(resp.body) = <<>>

(* C11: a valid GET request none of whose teams has data is answered 404 and *)
(* no renderer is called; one whose teams have data but no match to show     *)
(* (the filter removes them all) is answered 200 with a feed of the format   *)
(* asked for that holds no event, item or entry.                             *)
C11_NoDataIsNotEmptyFeed ==
    (pc = "done" /\ req.method = HandlerText.GET /\ ~IsPresent(Validate(req))) =>
        /\ ResolvedTeams = <<>> =>
              (resp.status = 404 /\ resp.body = HandlerText.NoData /\ ~RendererCalled)
        /\ (NothingToShow /\ FormatOf(req) \in {HandlerText.ics, HandlerText.json, HandlerText.rss})
              => (resp.status = 200 /\ RendererCalled /\ EmptyFeed)

\* a calendar without events, for a team that has matches and the filter "zz"
C11_Witness ==
    /\ IcsRendered
    /\ req.tournament = Some(ParamText.zz)
    /\ NothingToShow
    /\ ResponseEvents = <<>>

-----------------------------------------------------------------------------
\* how many matches the teams before the t-th have
MatchesBefore(teams, t) ==
    Cardinality(UNION {{<<a, i>> : i \in DOMAIN teams[a].matches} : a \in 1..(t - 1)})

(* C12: a calendar returned holds as many BEGIN:VEVENT lines as the teams    *)
(* handed to the renderer have matches, and the event of the i-th match of   *)
(* the t-th team is the one numbered (matches of the teams before t) + i.    *)
C12_OneEventPerMatchInOrder ==
    IcsRendered =>
        LET lines == LinesOf(resp.body)
            events == ResponseEvents
            teams == teamDataList
        IN /\ Cardinality({n \in DOMAIN lines : lines[n] = EventText.BEGIN_VEVENT})
                 = MatchesBefore(teams, Len(teams) + 1)
           /\ Len(events) = MatchesBefore(teams, Len(teams) + 1)
           /\ \A t \in DOMAIN teams : \A i \in DOMAIN teams[t].matches :
                 events[MatchesBefore(teams, t) + i]
                     = generateVEvent(teams[t].team, teams[t].matches[i], reminderMinutes)

\* a calendar of two teams and three events: the two of the first team, then
\* the one of the second
C12_Witness ==
    /\ IcsRendered
    /\ Len(teamDataList) = 2
    /\ Len(teamDataList[1].matches) = 2
    /\ Len(teamDataList[2].matches) = 1
    /\ Len(ResponseEvents) = 3
    /\ ResponseEvents[3]
          = generateVEvent(teamDataList[2].team, teamDataList[2].matches[1], reminderMinutes)

-----------------------------------------------------------------------------
\* a read of the bucket or of the assets is in the trace
StoreRead == \E i \in DOMAIN trace : trace[i].op \in {"DATA_BUCKET.get", "ASSETS.fetch"}

\* the text is no slug: it is empty or holds something else than a letter, a
\* digit, "_" or "-"
NoSlug(t) ==
    \/ t = <<>>
    \/ \E i \in DOMAIN t :
          /\ t[i] \notin {"_", "-"}
          /\ ~IsDigit(t[i])
          /\ \A k \in 1..26 : t[i] \notin {LowerChars[k], UpperChars[k]}

(* C13: a GET request that lists a text that is no slug, wherever in the     *)
(* list, is answered 400 and nothing is read from the bucket or the assets;  *)
(* so is a request whose teams parameter is missing or lists nothing.        *)
C13_InvalidSlugReadsNothing ==
    (pc = "done" /\ req.method = HandlerText.GET) =>
        /\ (\E i \in DOMAIN SlugsOf(req) : NoSlug(SlugsOf(req)[i]))
              => (resp.status = 400 /\ ~StoreRead)
        /\ (~IsPresent(req.teams) \/ SlugsOf(req) = <<>>)
              => (resp.status = 400 /\ ~StoreRead)

\* teams=Fnatic,../etc/passwd: refused with the text of the second slug, and
\* nothing was read for the first
C13_Witness ==
    /\ pc = "done"
    /\ Len(SlugsOf(req)) = 2
    /\ SlugsOf(req)[1] = FixtureText.Fnatic
    /\ SlugsOf(req)[2] = ParamText.Traversal
    /\ resp.status = 400
    /\ resp.body = HandlerText.InvalidSlug \o ParamText.Traversal
    /\ ~StoreRead

-----------------------------------------------------------------------------
(* The image proxy (functions/image-proxy.ts).  req is its request, trace    *)
(* the upstream fetches it has made, resp its response.                      *)

\* the text of the image proxy and of the url values of its requests
ProxyText ==
      \* https://liquipedia.net/
    [ Allowed |->
          <<"h", "t", "t", "p", "s", ":", "/", "/", "l", "i", "q", "u", "i", "p", "e", "d",
            "i", "a", ".", "n", "e", "t", "/">>,
      \* https://liquipedia.net
      NoSlash |->
          <<"h", "t", "t", "p", "s", ":", "/", "/", "l", "i", "q", "u", "i", "p", "e", "d",
            "i", "a", ".", "n", "e", "t">>,
      \* http://liquipedia.net/
      Http |->
          <<"h", "t", "t", "p", ":", "/", "/", "l", "i", "q", "u", "i", "p", "e", "d", "i",
            "a", ".", "n", "e", "t", "/">>,
      \* https://evil.com/
      Evil |->
          <<"h", "t", "t", "p", "s", ":", "/", "/", "e", "v", "i", "l", ".", "c", "o", "m",
            "/">>,
      \* HTTPS://LIQUIPEDIA.NET/
      UpperCase |->
          <<"H", "T", "T", "P", "S", ":", "/", "/", "L", "I", "Q", "U", "I", "P", "E", "D",
            "I", "A", ".", "N", "E", "T", "/">>,
      \* https://evil.com/?https://liquipedia.net/
      Inside |->
          <<"h", "t", "t", "p", "s", ":", "/", "/", "e", "v", "i", "l", ".", "c", "o", "m",
            "/", "?", "h", "t", "t", "p", "s", ":", "/", "/", "l", "i", "q", "u", "i", "p",
            "e", "d", "i", "a", ".", "n", "e", "t", "/">>,
      \*  https://liquipedia.net/
      Spaced |->
          <<" ", "h", "t", "t", "p", "s", ":", "/", "/", "l", "i", "q", "u", "i", "p", "e",
            "d", "i", "a", ".", "n", "e", "t", "/">>,
      \* a.png
      Png |->
          <<"a", ".", "p", "n", "g">>,
      \* commons/images/b.svg
      Svg |->
          <<"c", "o", "m", "m", "o", "n", "s", "/", "i", "m", "a", "g", "e", "s", "/", "b",
            ".", "s", "v", "g">>,
      \* ../x
      Up |->
          <<".", ".", "/", "x">>,
      \* Missing 'url' parameter
      MissingUrl |->
          <<"M", "i", "s", "s", "i", "n", "g", " ", "'", "u", "r", "l", "'", " ", "p", "a",
            "r", "a", "m", "e", "t", "e", "r">>,
      \* Only Liquipedia images are allowed
      OnlyLiquipedia |->
          <<"O", "n", "l", "y", " ", "L", "i", "q", "u", "i", "p", "e", "d", "i", "a", " ",
            "i", "m", "a", "g", "e", "s", " ", "a", "r", "e", " ", "a", "l", "l", "o", "w",
            "e", "d">>,
      \* Failed to fetch image
      FailedFetch |->
          <<"F", "a", "i", "l", "e", "d", " ", "t", "o", " ", "f", "e", "t", "c", "h", " ",
            "i", "m", "a", "g", "e">>,
      \* Internal server error
      InternalError |->
          <<"I", "n", "t", "e", "r", "n", "a", "l", " ", "s", "e", "r", "v", "e", "r", " ",
            "e", "r", "r", "o", "r">> ]

\* the values of the url parameter: missing, empty, and seven beginnings
\* (one of them allowed) followed by four paths
ImageUrls ==
    {Null, Some(<<>>)} \cup
    {Some(b \o q) :
        b \in {ProxyText.Allowed, ProxyText.NoSlash, ProxyText.Http, ProxyText.Evil,
               ProxyText.UpperCase, ProxyText.Inside, ProxyText.Spaced},
        q \in {<<>>, ProxyText.Png, ProxyText.Svg, ProxyText.Up}}

ProxyRequests ==
    {[method |-> m, url |-> u] :
        m \in {HandlerText.GET, HandlerText.OPTIONS, ParamText.POST}, u \in ImageUrls}

\* what fetch(imageUrl) comes back with: it throws, or a response
UpstreamOutcomes ==
    {[threw |-> TRUE, status |-> 0, contentType |-> Null, body |-> <<>>]} \cup
    {[threw |-> FALSE, status |-> c, contentType |-> t, body |-> <<"b", "y", "t", "e", "s">>] :
        c \in {200, 403, 404, 503}, t \in {Null, Some(""), Some("image/svg+xml")}}

\* imageUrl.startsWith with a prefix found anywhere in the text
AllowedImage_AnyHost(imageUrl) == includes(imageUrl, ProxyText.Allowed)

\* imageUrl.startsWith("https://liquipedia.net/")
AllowedImage(imageUrl) == StartsAt(imageUrl, ProxyText.Allowed, 1)

\* onRequest up to the fetch
ProxyReceive(r) ==
    /\ pc = "idle"
    /\ req' = r
    /\ IF ~Truthy(r.url)
       THEN /\ resp' = Response(400, TextHeaders, ProxyText.MissingUrl, Null)
            /\ trace' = <<>>
            /\ pc' = "done"
       ELSE IF ~AllowedImage(r.url[1])
       THEN /\ resp' = Response(403, TextHeaders, ProxyText.OnlyLiquipedia, Null)
            /\ trace' = <<>>
            /\ pc' = "done"
       ELSE /\ resp' = NoResponse
            /\ trace' = <<[op |-> "fetch", arg |-> r.url[1]]>>
            /\ pc' = "fetch"
    /\ UNCHANGED <<page, suspended, bucket, assets, reminderMinutes, slugs,
                   idx, teamDataList, text, escaped>>

\* the fetch has settled: the image is passed on, or the failure is answered
ProxyRespond ==
    /\ pc = "fetch"
    /\ \E o \in UpstreamOutcomes :
          resp' = IF o.threw
                  THEN Response(500, TextHeaders, ProxyText.InternalError, Null)
                  ELSE IF o.status \notin 200..299
                  THEN Response(o.status, TextHeaders, ProxyText.FailedFetch, Null)
                  ELSE Response(o.status,
                                {<<"Content-Type",
                                   IF IsPresent(o.contentType) /\ o.contentType[1] # ""
                                   THEN o.contentType[1] ELSE "image/png">>,
                                 <<"Cache-Control", "public, max-age=86400">>,
                                 <<"Access-Control-Allow-Origin", "*">>},
                                o.body, Null)
    /\ pc' = "done"
    /\ UNCHANGED <<page, suspended, bucket, assets, req, reminderMinutes,
                   slugs, idx, teamDataList, trace, text, escaped>>

InitProxy ==
    /\ bucket = Null
    /\ assets = <<>>
    /\ pc = "idle"
    /\ req = NoRequest
    /\ reminderMinutes = 30
    /\ slugs = <<>>
    /\ idx = 0
    /\ teamDataList = <<>>
    /\ trace = <<>>
    /\ resp = NoResponse
    /\ suspended = EmptyBag
    /\ text = <<>>
    /\ escaped = <<>>
    /\ page = NoPage

NextProxy ==
    \/ \E r \in ProxyRequests : ProxyReceive(r)
    \/ ProxyRespond
    \/ Return

SpecProxy == InitProxy /\ [][NextProxy]_vars

\* the proxy has asked the upstream for something
UpstreamFetched == \E i \in DOMAIN trace : trace[i].op = "fetch"

\* the text begins with https://liquipedia.net/
BeginsWithLiquipedia(t) ==
    /\ Len(t) >= Len(ProxyText.Allowed)
    /\ SubSeq(t, 1, Len(ProxyText.Allowed)) = ProxyText.Allowed

(* C14: the image proxy fetches only a url that begins with                  *)
(* https://liquipedia.net/, and then that url itself; a missing (or empty)   *)
(* url is answered 400 and any other url 403, both without a fetch.          *)
C14_ProxyFetchesOnlyLiquipedia ==
    /\ UpstreamFetched =>
          /\ IsPresent(req.url)
          /\ BeginsWithLiquipedia(req.url[1])
          /\ trace = <<[op |-> "fetch", arg |-> req.url[1]]>>
    /\ pc = "done" =>
          /\ (req.url \in {Null, Some(<<>>)}) => (resp.status = 400 /\ ~UpstreamFetched)
          /\ (req.url \notin {Null, Some(<<>>)} /\ ~BeginsWithLiquipedia(req.url[1]))
                => (resp.status = 403 /\ ~UpstreamFetched)
          /\ (req.url \notin {Null, Some(<<>>)} /\ BeginsWithLiquipedia(req.url[1]))
                => UpstreamFetched

\* a url that holds the allowed beginning, but not at its start: 403, no fetch
C14_Witness ==
    /\ pc = "done"
    /\ req.url = Some(ProxyText.Inside \o ProxyText.Png)
    /\ resp.status = 403
    /\ resp.body = ProxyText.OnlyLiquipedia
    /\ trace = <<>>

-----------------------------------------------------------------------------
(* generateICS on its own, for records made for what the UID and the dates   *)
(* are claimed to do.  teamDataList is the argument, text the calendar.      *)

\* a stored record of one match
SampleRecord(slug, opponent, timestamp) ==
    [team |-> [name |-> slug, slug |-> slug, short_name |-> slug, emoji |-> SampleText.Star,
               game |-> FixtureText.Game, liquipedia_url |-> SampleText.RnDUrl],
     matches |-> <<[timestamp |-> timestamp, opponent |-> opponent,
                    tournament |-> SampleText.Worlds, url |-> Null, is_upcoming |-> TRUE,
                    score |-> Null]>>]

\* two teams whose slugs and opponents are made of "a", "b", "c" and "vs"
UidSamples ==
    LET slugTexts == {<<"a">>, <<"c">>, <<"A", "-", "v", "s", "-", "B">>}
        opponentTexts == {<<"a">>, <<"c">>, <<"b", " ", "v", "s", " ", "c">>,
                          <<"A", " ", "v", "s", "_", "B">>}
        records == {SampleRecord(g, o, t) :
                       g \in slugTexts, o \in opponentTexts, t \in {PAST_TS, FUTURE_TS}}
    IN {<<x, y>> : x \in records, y \in records}

\* one team with a match at, or up to a little more than two hours around,
\* midnight of 1970-01-01, 2000-02-29, 2024-02-29, 2024-03-01, 2025-03-01
\* and 2026-01-01
DateSamples ==
    {<<SampleRecord(<<"a">>, <<"c">>, day + offset)>> :
        day \in {0, 951782400, 1709164800, 1709251200, 1740787200, 1767225600},
        offset \in {-86400, -7201, -7200, -7199, -3661, -3600, -61, -60, -1, 0, 1, 59, 60,
                    3599, 3600, 7199, 7200, 7201, 43200, 86399}}

\* one team with a match whose url is absent, empty or given, and whose
\* opponent is written with spaces, an underscore or neither
FeedSamples ==
    {<<[SampleRecord(<<"a">>, o, FUTURE_TS) EXCEPT !.matches[1].url = u]>> :
        o \in {<<"c">>, <<"b", " ", "v", "s", " ", "c">>, <<"A", " ", "v", "s", "_", "B">>},
        u \in {Null, Some(<<>>), Some(SampleText.QueryUrl)}}

InitRender ==
    /\ bucket = Null
    /\ assets = <<>>
    /\ pc = "idle"
    /\ req = NoRequest
    /\ reminderMinutes = 30
    /\ slugs = <<>>
    /\ idx = 0
    /\ teamDataList \in UidSamples \cup DateSamples \cup FeedSamples
    /\ trace = <<>>
    /\ resp = NoResponse
    /\ suspended = EmptyBag
    /\ text = <<>>
    /\ escaped = <<>>
    /\ page = NoPage

RenderCalendar ==
    /\ pc = "idle"
    /\ text' = generateICS(teamDataList, reminderMinutes)
    /\ pc' = "done"
    /\ UNCHANGED <<page, suspended, bucket, assets, req, reminderMinutes,
                   slugs, idx, teamDataList, trace, resp, escaped>>

\* generateJSONFeed and generateAtomFeed for the same records: resp.json is
\* the feed, resp.body the Atom document, resp.status 500 when
\* generateAtomFeed threw
RenderFeeds ==
    /\ pc = "done"
    /\ \E now \in NowValues :
          LET atom == generateAtomFeed(teamDataList, req.url, now) IN
          resp' = Response(IF atom.threw THEN 500 ELSE 200, {}, atom.body,
                           Some(generateJSONFeed(teamDataList, req.url)))
    /\ pc' = "fed"
    /\ UNCHANGED <<page, suspended, bucket, assets, req, reminderMinutes,
                   slugs, idx, teamDataList, trace, text, escaped>>

NextRender == RenderCalendar \/ RenderFeeds

SpecRender == InitRender /\ [][NextRender]_vars

-----------------------------------------------------------------------------
\* the calendar has been made from the records
CalendarMade == pc = "done" /\ text # <<>>

\* the VEVENT blocks of the calendar made
MadeEvents == EventsOf(LinesOf(text))

\* the two participant tokens of a (team, match) pair, without their order
ParticipantTokens(pair) == {toLowerCase(pair.team.slug), UidOpponentSlug(pair.match)}

(* C15: in every calendar made, two events with the same UID line are of     *)
(* matches with the same timestamp and the same unordered pair of            *)
(* participant tokens (the lower-cased slug of the team, and the opponent    *)
(* text with hyphens for white space and underscores, lower-cased).          *)
C15_EqualUidSameMatch ==
    CalendarMade =>
        LET events == MadeEvents
            pairs == RenderedPairs
        IN \A k, l \in DOMAIN events \cap DOMAIN pairs :
               UidLineOf(events[k]) = UidLineOf(events[l])
                   => /\ pairs[k].match.timestamp = pairs[l].match.timestamp
                      /\ ParticipantTokens(pairs[k]) = ParticipantTokens(pairs[l])

-----------------------------------------------------------------------------
\* the value of the first line of a block that begins with name
ValueAfter(event, name) ==
    LET line == event[CHOOSE i \in DOMAIN event :
                          /\ StartsAt(event[i], name, 1)
                          /\ \A j \in 1..(i - 1) : ~StartsAt(event[j], name, 1)]
    IN SubSeq(line, Len(name) + 1, Len(line))

\* the number written by the digits of t from position a to position b
FieldValue(t, a, b) ==
    LET upTo[i \in (a - 1)..b] == IF i < a THEN 0 ELSE 10 * upTo[i - 1] + DigitValue(t[i])
    IN upTo[b]

IsLeapYear(y) == y % 4 = 0 /\ (y % 100 # 0 \/ y % 400 = 0)

DaysInMonth(y, m) ==
    IF m = 2 THEN (IF IsLeapYear(y) THEN 29 ELSE 28)
    ELSE IF m \in {4, 6, 9, 11} THEN 30 ELSE 31

\* the days from 1970-01-01 to the first day of year y
DaysBeforeYear(y) ==
    LET leapsBefore(x) == (x - 1) \div 4 - (x - 1) \div 100 + (x - 1) \div 400
    IN 365 * (y - 1970) + leapsBefore(y) - leapsBefore(1970)

\* the days from the first day of year y to the first day of its month m
DaysBeforeMonth(y, m) ==
    LET upTo[i \in 0..(m - 1)] == IF i = 0 THEN 0 ELSE upTo[i - 1] + DaysInMonth(y, i)
    IN upTo[m - 1]

\* t is YYYYMMDDThhmmssZ: sixteen characters, digits around T and before Z,
\* the fields of a date of the calendar and of a time of the day
IsUtcStamp(t) ==
    /\ Len(t) = 16
    /\ \A i \in (1..8) \cup (10..15) : IsDigit(t[i])
    /\ t[9] = "T"
    /\ t[16] = "Z"
    /\ FieldValue(t, 5, 6) \in 1..12
    /\ FieldValue(t, 7, 8) \in 1..DaysInMonth(FieldValue(t, 1, 4), FieldValue(t, 5, 6))
    /\ FieldValue(t, 10, 11) \in 0..23
    /\ FieldValue(t, 12, 13) \in 0..59
    /\ FieldValue(t, 14, 15) \in 0..59

\* the seconds from 1970-01-01T00:00:00Z to the instant a stamp names
StampInstant(t) ==
    LET y == FieldValue(t, 1, 4)
        m == FieldValue(t, 5, 6)
        days == DaysBeforeYear(y) + DaysBeforeMonth(y, m) + FieldValue(t, 7, 8) - 1
    IN 86400 * days + 3600 * FieldValue(t, 10, 11) + 60 * FieldValue(t, 12, 13)
           + FieldValue(t, 14, 15)

(* C18: in every calendar made, the DTSTART value of the k-th event is a     *)
(* stamp YYYYMMDDThhmmssZ with zero-padded fields that names the instant     *)
(* timestamp of the k-th match, and its DTEND value is such a stamp that     *)
(* names the instant timestamp + 7200, two hours later.                      *)
C18_StartAndEndInstants ==
    CalendarMade =>
        LET events == MadeEvents
            pairs == RenderedPairs
        IN \A k \in DOMAIN events \cap DOMAIN pairs :
               LET start == ValueAfter(events[k], EventText.DTSTART)
                   end == ValueAfter(events[k], EventText.DTEND)
               IN /\ IsUtcStamp(start)
                  /\ IsUtcStamp(end)
                  /\ StampInstant(start) = pairs[k].match.timestamp
                  /\ StampInstant(end) = pairs[k].match.timestamp + 7200
                  /\ StampInstant(end) - StampInstant(start) = 7200

\* a match that starts at 23:00 on the last day of 2025 ends at 01:00 on the
\* first day of 2026
C18_Witness ==
    /\ CalendarMade
    /\ \E k \in DOMAIN MadeEvents :
           /\ RenderedPairs[k].match.timestamp = 1767222000
           /\ ValueAfter(MadeEvents[k], EventText.DTSTART)
                  = <<"2", "0", "2", "5", "1", "2", "3", "1", "T", "2", "3", "0", "0", "0", "0", "Z">>
           /\ ValueAfter(MadeEvents[k], EventText.DTEND)
                  = <<"2", "0", "2", "6", "0", "1", "0", "1", "T", "0", "1", "0", "0", "0", "0", "Z">>

-----------------------------------------------------------------------------
(* The endpoint over the store of createMockContext: json() of a stored      *)
(* object resolves to the stored record itself, not to a copy of it, and     *)
(* ASSETS answers 404.  The handler assigns the filtered list to             *)
(* teamData.matches, so the assignment is made to the stored record.         *)

SharedRequests ==
    {Request(HandlerText.GET, Some(join(s, <<",">>)), f, q, Null) :
        s \in {<<FixtureText.Fnatic>>, <<FixtureText.G2Slug>>,
               <<FixtureText.Fnatic, FixtureText.G2Slug>>, <<ParamText.Ghost>>},
        f \in {Null, Some(HandlerText.json)},
        q \in TournamentParams}

InitShared ==
    /\ bucket = Some(BucketObjects)
    /\ assets = <<>>
    /\ pc = "idle"
    /\ req = NoRequest
    /\ reminderMinutes = 30
    /\ slugs = <<>>
    /\ idx = 0
    /\ teamDataList = <<>>
    /\ trace = <<>>
    /\ resp = NoResponse
    /\ suspended = EmptyBag
    /\ text = <<>>
    /\ escaped = <<>>
    /\ page = NoPage

\* ASSETS answers 404, so no invocation comes to await resp.json()
NextShared ==
    \/ \E r \in Arriving(SharedRequests) : Receive(r)
    \/ AwaitBucketGet("stored")
    \/ AwaitObjectJson("stored")
    \/ AwaitAssetsFetch("stored")
    \/ Return

SpecShared == InitShared /\ [][NextShared]_vars

\* the records of the store as they were when the endpoint started
StoredAtStart(team) ==
    \/ \E k \in DOMAIN BucketObjects : BucketObjects[k] = team
    \/ \E u \in DOMAIN AssetFiles : AssetFiles[u] = team

(* C16: a feed returned for a request without a tournament filter is         *)
(* rendered from the match lists the store held at the start, whatever       *)
(* requests with a tournament filter were handled before it; and no request  *)
(* changes a record of the store.                                            *)
C16_FilterLeavesOtherRequestsAlone ==
    /\ bucket = Some(BucketObjects)
    /\ (pc = "done" /\ resp.status = 200 /\ ~Truthy(req.tournament))
           => \A i \in DOMAIN teamDataList : StoredAtStart(teamDataList[i])

-----------------------------------------------------------------------------
UpdatedOpen == <<"<", "u", "p", "d", "a", "t", "e", "d", ">">>

\* where the value of the first <updated> element of a document begins, and
\* where the markup after it begins
FirstUpdated(body) ==
    LET at == CHOOSE u \in Occurrences(body, UpdatedOpen) :
                  \A v \in Occurrences(body, UpdatedOpen) : u <= v
        from == at + Len(UpdatedOpen)
    IN [at |-> at, from |-> from,
        to |-> CHOOSE c \in from..Len(body) :
                   body[c] = "<" /\ \A d \in from..(c - 1) : body[d] # "<"]

\* the first <updated> element is the one of the feed: it is before every entry
UpdatedOfFeed(body) == \A e \in Occurrences(body, EntryOpen) : FirstUpdated(body).at < e

\* two documents are the same text around the value of their first <updated>
SameButUpdated(a, b) ==
    /\ SubSeq(a, 1, FirstUpdated(a).from - 1) = SubSeq(b, 1, FirstUpdated(b).from - 1)
    /\ SubSeq(a, FirstUpdated(a).to, Len(a)) = SubSeq(b, FirstUpdated(b).to, Len(b))

\* the invocations in flight that have rendered a document
Renders == {inv \in BagToSet(InFlight) : inv.pc = "done" /\ inv.resp.status = 200}

\* the two were rendered from the same request, team list and reminder
SameRender(a, b) ==
    /\ a.req = b.req
    /\ a.teamDataList = b.teamDataList
    /\ a.reminderMinutes = b.reminderMinutes

-----------------------------------------------------------------------------
\* the calls of the three renderers the invocation has made, in order
RendererCalls ==
    SelectSeq(trace, LAMBDA c : c.op \in {"generateICS", "generateJSONFeed", "generateAtomFeed"})

\* the invocation has ended for a GET request that passed the checks and for
\* which at least one team was loaded
ResolvedGet ==
    /\ pc = "done"
    /\ req.method = HandlerText.GET
    /\ ~IsPresent(Validate(req))
    /\ teamDataList # <<>>

(* C19: no invocation calls more than one renderer.  When a GET request that *)
(* passed the checks and resolved at least one team has been answered: with  *)
(* format ics, or without format, generateICS alone was called and the       *)
(* response is its text as text/calendar; with format json,                  *)
(* generateJSONFeed alone was called and the response is its feed as         *)
(* application/feed+json; with format rss, generateAtomFeed alone was called *)
(* and the response is its document as application/atom+xml.                 *)
C19_OneDocumentByFormat ==
    /\ Len(RendererCalls) <= 1
    /\ ResolvedGet =>
          /\ (~IsPresent(req.format) \/ req.format = Some(HandlerText.ics)) =>
                 /\ Len(RendererCalls) = 1 /\ RendererCalls[1].op = "generateICS"
                 /\ IcsRendered
                 /\ resp.body = generateICS(teamDataList, reminderMinutes)
                 /\ resp.json = Null
          /\ req.format = Some(HandlerText.json) =>
                 /\ Len(RendererCalls) = 1 /\ RendererCalls[1].op = "generateJSONFeed"
                 /\ JsonRendered
                 /\ resp.json = Some(generateJSONFeed(teamDataList, req.url))
                 /\ resp.body = <<>>
          /\ req.format = Some(HandlerText.rss) =>
                 /\ Len(RendererCalls) = 1 /\ RendererCalls[1].op = "generateAtomFeed"
                 /\ AtomRendered
                 /\ resp.body = AtomDocument(teamDataList, req.url, RendererCalls[1].arg)
                 /\ resp.json = Null

-----------------------------------------------------------------------------
\* t with a backslash before each backslash, semicolon and comma
WithBackslashes(t) ==
    Concat([i \in 1..Len(t) |-> IF t[i] \in EscapedByIcs THEN <<"\\", t[i]>> ELSE <<t[i]>>])

\* the names of the teams, each with its backslashes, with ", " between them
EscapedNames(teams) ==
    join([i \in 1..Len(teams) |-> WithBackslashes(teams[i].team.name)], CalendarText.CommaSpace)

\* the DESCRIPTION lines of the alarm of a block
AlarmDescriptions(event) ==
    {event[i] : i \in {j \in DOMAIN event :
                          /\ StartsAt(event[j], EventText.DESCRIPTION, 1)
                          /\ \E a \in 1..(j - 1) : event[a] = EventText.BEGIN_VALARM}}

(* C20: in every calendar returned, the PRODID and X-WR-CALNAME lines hold   *)
(* the team names with a backslash before each backslash, semicolon and      *)
(* comma of a name; and for the k-th event, SUMMARY holds the short name and *)
(* the opponent so written, DESCRIPTION the tournament, the URL line the     *)
(* url, and the DESCRIPTION of the alarm the team name and the opponent.     *)
C20_FreeTextEscaped ==
    IcsRendered =>
        LET lines == LinesOf(resp.body)
            events == ResponseEvents
            pairs == RenderedPairs
        IN /\ CalendarText.PRODID \o EscapedNames(teamDataList) \o CalendarText.SlashSlash
                  \in Range(lines)
           /\ CalendarText.CALNAME \o EscapedNames(teamDataList) \o CalendarText.Matches
                  \in Range(lines)
           /\ \A k \in DOMAIN events \cap DOMAIN pairs :
                  /\ includes(ValueAfter(events[k], EventText.SUMMARY),
                              WithBackslashes(pairs[k].team.short_name))
                  /\ includes(ValueAfter(events[k], EventText.SUMMARY),
                              WithBackslashes(pairs[k].match.opponent))
                  /\ includes(ValueAfter(events[k], EventText.DESCRIPTION),
                              WithBackslashes(pairs[k].match.tournament))
                  /\ Truthy(pairs[k].match.url) =>
                         EventText.URL \o WithBackslashes(pairs[k].match.url[1]) \in Range(events[k])
                  /\ \A line \in AlarmDescriptions(events[k]) :
                         /\ includes(line, WithBackslashes(pairs[k].team.name))
                         /\ includes(line, WithBackslashes(pairs[k].match.opponent))

-----------------------------------------------------------------------------
\* t is the decimal notation of an integer in 0..1440: digits only, no zero
\* in front of another digit, and the value at most 1440
IsReminderNotation(t) ==
    /\ Len(t) \in 1..4
    /\ \A i \in DOMAIN t : IsDigit(t[i])
    /\ Len(t) > 1 => t[1] # "0"
    /\ FieldValue(t, 1, Len(t)) <= 1440

(* C21: a GET request whose reminder parameter is given and is not the       *)
(* decimal notation of an integer in 0..1440 is answered 400, and no         *)
(* renderer has run for it.                                                  *)
C21_OnlyReminderNotationAccepted ==
    (/\ pc = "done"
     /\ req.method = HandlerText.GET
     /\ IsPresent(req.reminder)
     /\ ~IsReminderNotation(req.reminder[1]))
        => /\ resp.status = 400
           /\ ~RendererCalled

-----------------------------------------------------------------------------
\* the feeds have been made from the records the calendar was made from
FeedsMade == pc = "fed"

\* "<id>urn:esports-calendar:", as an entry writes it
EntryIdOpen == SubSeq(AtomText.AtomEntry1, 15, Len(AtomText.AtomEntry1))

\* "</id>"
IdClose == SubSeq(AtomText.AtomEntry2, 1, 5)

\* the id of the pair with the opponent token of the UID: the opponent with
\* one hyphen for each run of white space and for each underscore, lower-cased
IdWithUidToken(pair) ==
    toLowerCase(pair.team.slug) \o <<"-">> \o NumberToString(pair.match.timestamp) \o <<"-">>
        \o toLowerCase(ReplaceUnderscores(ReplaceSpaceRuns(pair.match.opponent)))

(* C22: for every (team, match) pair rendered, the JSON Feed has an item     *)
(* whose id is slug-timestamp-token with the opponent token the UID of the   *)
(* calendar uses, the UID line of the calendar holds that token, and every   *)
(* id of a JSON item is the id of an Atom entry after urn:esports-calendar:. *)
C22_SameTokenInEveryFormat ==
    FeedsMade =>
        LET pairs == RenderedPairs
            items == resp.json[1].items
        IN /\ \A k \in DOMAIN pairs :
                  /\ \E i \in DOMAIN items : items[i].id = IdWithUidToken(pairs[k])
                  /\ includes(UidLineOf(EventsOf(LinesOf(text))[k]),
                              toLowerCase(ReplaceUnderscores(ReplaceSpaceRuns(pairs[k].match.opponent))))
           /\ resp.status = 200 =>
                  \A i \in DOMAIN items :
                      includes(resp.body, EntryIdOpen \o items[i].id \o IdClose)

-----------------------------------------------------------------------------
\* where a reader of the lines stands after the last line: in the calendar
\* (0), in an event (1) or in the alarm of an event (2); ok is lost at a BEGIN
\* or END that is out of place.  While every line is in place, the level
\* after a line is the number of BEGINs less the number of ENDs up to it.
BlockWalk(lines) ==
    LET Marks(line, i) == Cardinality({j \in 1..i : lines[j] = line})
        Level(i) == Marks(EventText.BEGIN_VEVENT, i) - Marks(EventText.END_VEVENT, i)
                        + Marks(EventText.BEGIN_VALARM, i) - Marks(EventText.END_VALARM, i)
        \* the alarms, up to line i, of the event opened last
        Alarms(i) ==
            Cardinality({j \in 1..i :
                            /\ lines[j] = EventText.BEGIN_VALARM
                            /\ \A o \in 1..i : lines[o] = EventText.BEGIN_VEVENT => o < j})
        InPlace(i) ==
            /\ lines[i] = EventText.BEGIN_VEVENT => Level(i - 1) = 0
            /\ lines[i] = EventText.END_VEVENT => Level(i - 1) = 1
            /\ lines[i] = EventText.BEGIN_VALARM => (Level(i - 1) = 1 /\ Alarms(i - 1) = 0)
            /\ lines[i] = EventText.END_VALARM => Level(i - 1) = 2
    IN [ok |-> \A i \in DOMAIN lines : InPlace(i), level |-> Level(Len(lines))]

(* C23: every calendar returned ends with CRLF and is its lines, each        *)
(* followed by CRLF, with no CR or LF inside a line; BEGIN:VCALENDAR is the  *)
(* first line and only the first, END:VCALENDAR the last and only the last;  *)
(* between them every BEGIN:VEVENT is closed by END:VEVENT before the next   *)
(* one opens, and every BEGIN:VALARM stands inside an event that has no      *)
(* alarm yet and is closed by END:VALARM before the event ends.              *)
C23_CalendarIsWellFormed ==
    IcsRendered =>
        LET lines == LinesOf(resp.body) IN
        /\ Len(resp.body) >= 2
        /\ SubSeq(resp.body, Len(resp.body) - 1, Len(resp.body)) = CalendarText.CRLF
        /\ resp.body = Concat([i \in DOMAIN lines |-> lines[i] \o CalendarText.CRLF])
        /\ \A i \in DOMAIN lines : "\r" \notin Range(lines[i]) /\ "\n" \notin Range(lines[i])
        /\ Len(lines) >= 2
        /\ \A i \in DOMAIN lines : lines[i] = CalendarText.BEGIN_VCALENDAR <=> i = 1
        /\ \A i \in DOMAIN lines : lines[i] = CalendarText.END_VCALENDAR <=> i = Len(lines)
        /\ BlockWalk(lines).ok
        /\ BlockWalk(lines).level = 0

\* a calendar of two events or more, one with an alarm and one without
C23_Witness ==
    /\ IcsRendered
    /\ \E k, l \in DOMAIN ResponseEvents :
           HasAlarm(ResponseEvents[k]) /\ ~HasAlarm(ResponseEvents[l])

-----------------------------------------------------------------------------
(* The endpoint over stores in every condition: the bucket not bound, or     *)
(* bound with each object absent, stored or unreadable; the assets with each *)
(* file absent, stored or unreadable.                                        *)

\* the functions that give each key of a set one of its values, or leave it out
Stores(values) ==
    UNION {{f \in [keys -> UNION {values[k] : k \in keys}] : \A k \in keys : f[k] \in values[k]} :
              keys \in SUBSET DOMAIN values}

TierBuckets ==
    {Null} \cup {Some(b) : b \in Stores([k \in DOMAIN BucketObjects |-> {BucketObjects[k], Unreadable}])}

TierAssets ==
    LET fnatic == FixtureText.Origin \o HandlerText.dataPath \o KeyOf(FixtureText.Fnatic)
        g2 == FixtureText.Origin \o HandlerText.dataPath \o KeyOf(FixtureText.G2Slug)
    IN Stores([u \in {fnatic, g2} |-> IF u = fnatic THEN {TEAM_A} ELSE {TEAM_B, Unreadable}])

TierRequests ==
    {Request(HandlerText.GET, Some(join(s, <<",">>)), Null, Null, Null) :
        s \in {l \in SlugLists : l # <<>>
                                  /\ Range(l) \subseteq {FixtureText.Fnatic, FixtureText.G2Slug,
                                                         ParamText.Ghost}}}

InitTiers ==
    /\ bucket \in TierBuckets
    /\ assets \in TierAssets
    /\ pc = "idle"
    /\ req = NoRequest
    /\ reminderMinutes = 30
    /\ slugs = <<>>
    /\ idx = 0
    /\ teamDataList = <<>>
    /\ trace = <<>>
    /\ resp = NoResponse
    /\ suspended = EmptyBag
    /\ text = <<>>
    /\ escaped = <<>>
    /\ page = NoPage

NextTiers ==
    \/ \E r \in Arriving(TierRequests) : Receive(r)
    \/ AwaitBucketGet("parsed")
    \/ AwaitObjectJson("parsed")
    \/ AwaitAssetsFetch("parsed")
    \/ AwaitRespJson("parsed")
    \/ Return

SpecTiers == InitTiers /\ [][NextTiers]_vars

-----------------------------------------------------------------------------
\* the bucket has a record for the slug that can be read
InBucket(slug) ==
    /\ IsPresent(bucket)
    /\ KeyOf(slug) \in DOMAIN bucket[1]
    /\ bucket[1][KeyOf(slug)] # Unreadable

\* the assets have a record for the slug that can be read
InAssets(slug) ==
    LET u == req.url.origin \o HandlerText.dataPath \o KeyOf(slug) IN
    u \in DOMAIN assets /\ assets[u] # Unreadable

\* the record of the slug: the one of the bucket, else the one of the assets
RecordOf(slug) ==
    IF InBucket(slug) THEN bucket[1][KeyOf(slug)]
    ELSE assets[req.url.origin \o HandlerText.dataPath \o KeyOf(slug)]

\* the slugs of the request that some tier has a record for, in their order
Loadable == SelectSeq(slugs, LAMBDA g : InBucket(g) \/ InAssets(g))

(* C24: when a GET request without tournament filter has been answered,      *)
(* ASSETS was asked for /data/{slug lower-cased}.json of every slug for      *)
(* which the bucket gave no record (not bound, no object, or an object that  *)
(* cannot be read); the teams rendered are the records of the slugs that the *)
(* bucket or the assets hold, in the order of the teams parameter; and the   *)
(* answer is 404 only when there is none.                                    *)
C24_AssetsTriedForEveryMiss ==
    (pc = "done" /\ slugs # <<>> /\ ~Truthy(req.tournament)) =>
        /\ \A i \in DOMAIN slugs :
              ~InBucket(slugs[i]) =>
                  [op |-> "ASSETS.fetch",
                   arg |-> req.url.origin \o HandlerText.dataPath \o KeyOf(slugs[i])]
                      \in Range(trace)
        /\ Loadable # <<>> =>
              teamDataList = [i \in DOMAIN Loadable |-> RecordOf(Loadable[i])]
        /\ resp.status = 404 <=> Loadable = <<>>

-----------------------------------------------------------------------------
L_MoreInfo == <<"M", "o", "r", "e", " ", "i", "n", "f", "o">>

\* the id the feeds give the pair
FeedIdOf(pair) ==
    toLowerCase(pair.team.slug) \o <<"-">> \o NumberToString(pair.match.timestamp) \o <<"-">>
        \o toLowerCase(ReplaceSpaceRuns(pair.match.opponent))

(* C26: for every (team, match) pair rendered whose match has no url, or an  *)
(* empty one: the event of the calendar has no URL line and no "More info"   *)
(* in its DESCRIPTION; the JSON Feed has the item of the match with the      *)
(* liquipedia_url of the team as url; and generateAtomFeed has returned a    *)
(* document that holds the entry of the match.                               *)
C26_UrlMayBeMissing ==
    FeedsMade =>
        LET pairs == RenderedPairs
            events == EventsOf(LinesOf(text))
            items == resp.json[1].items
        IN \A k \in DOMAIN pairs :
               ~Truthy(pairs[k].match.url) =>
                   /\ k \in DOMAIN events
                   /\ \A i \in DOMAIN events[k] : ~StartsAt(events[k][i], EventText.URL, 1)
                   /\ ~includes(ValueAfter(events[k], EventText.DESCRIPTION), L_MoreInfo)
                   /\ \E i \in DOMAIN items :
                          /\ items[i].id = FeedIdOf(pairs[k])
                          /\ items[i].url = pairs[k].team.liquipedia_url
                   /\ resp.status = 200
                   /\ includes(resp.body, EntryIdOpen \o FeedIdOf(pairs[k]) \o IdClose)

-----------------------------------------------------------------------------
(* The page script.  page holds its globals: selectedSlugs, teamDataCache,   *)
(* activeTournamentFilter, countdownInterval and reminderMinutes; with them  *)
(* localStorage, the clock, the intervals that are scheduled, the calls of   *)
(* loadAndRenderMatches that wait for a fetch, and what the document shows.  *)

PageText ==
      \* /api/calendar?teams=
    [ calendarPath |->
          <<"/", "a", "p", "i", "/", "c", "a", "l", "e", "n", "d", "a", "r", "?", "t", "e", "a",
            "m", "s", "=">>,
      \* &reminder=
      reminderParam |->
          <<"&", "r", "e", "m", "i", "n", "d", "e", "r", "=">>,
      \* the digits of %XX, as encodeURIComponent writes them
      hex |->
          <<"0", "1", "2", "3", "4", "5", "6", "7", "8", "9", "A", "B", "C", "D", "E", "F">>,
      \* the same digits in lower case
      hexLower |->
          <<"0", "1", "2", "3", "4", "5", "6", "7", "8", "9", "a", "b", "c", "d", "e", "f">>,
      \* the marks encodeURIComponent leaves as they are, with letters and digits
      marks |->
          <<"-", "_", ".", "!", "~", "*", "'", "(", ")">> ]

\* encodeURIComponent, for code units below U+0080
encodeURIComponent(t) ==
    Concat([i \in 1..Len(t) |->
               IF t[i] \in Range(UpperChars) \cup Range(LowerChars) \cup Range(DigitChars)
                               \cup Range(PageText.marks)
               THEN <<t[i]>>
               ELSE <<"%", PageText.hex[(CodeUnit(t[i]) \div 16) + 1],
                      PageText.hex[(CodeUnit(t[i]) % 16) + 1]>>])

\* String(n) for a number as parseInt gives it: NaN, or an integer
StringOfNumber(n) == IF n.nan THEN <<"N", "a", "N">> ELSE NumberToString(n.value)

\* a link that leaves the reminder out whenever it is falsy or 30
buildCalendarUrl_Truthy(p) ==
    LET url == FixtureText.Origin \o PageText.calendarPath
                   \o encodeURIComponent(join(p.selectedSlugs, <<",">>))
    IN IF ~p.reminderMinutes.nan /\ p.reminderMinutes.value \notin {0, 30}
       THEN url \o PageText.reminderParam \o StringOfNumber(p.reminderMinutes)
       ELSE url

\* reminderMinutes !== 30 holds for NaN
buildCalendarUrl(p) ==
    LET base == FixtureText.Origin
        teamsParam == join(p.selectedSlugs, <<",">>)
        url == base \o PageText.calendarPath \o encodeURIComponent(teamsParam)
    IN IF p.reminderMinutes.nan \/ p.reminderMinutes.value # 30
       THEN url \o PageText.reminderParam \o StringOfNumber(p.reminderMinutes)
       ELSE url

\* String.prototype.split(sep) for a separator of one code unit
SplitAt(t, sep) ==
    LET at == Ascending({i \in DOMAIN t : t[i] = sep}) IN
    [k \in 1..(Len(at) + 1) |->
        SubSeq(t, IF k = 1 THEN 1 ELSE at[k - 1] + 1, IF k > Len(at) THEN Len(t) ELSE at[k] - 1)]

\* the value of a hexadecimal digit of either case
HexValue(c) ==
    (CHOOSE i \in DOMAIN PageText.hex : PageText.hex[i] = c \/ PageText.hexLower[i] = c) - 1

\* the code unit with the number n, among those of the model
UnitOf(n) ==
    CHOOSE c \in Range(AsciiPrintable) \cup {"\t", "\n", "\r", "u2014", "u2605", "uD83C", "uDDEA", "uDDFA"} :
        CodeUnit(c) = n

\* the decoding of a name or a value of a query: "+" is a space and %XX,
\* with digits of either case, is the code unit XX, for the code units of
\* the model below U+0080 (U+0009, U+000A, U+000D and U+0020..U+007E)
QueryDecode(t) ==
    LET IsHex(c) == c \in Range(PageText.hex) \cup Range(PageText.hexLower)
        escapes == {i \in DOMAIN t : t[i] = "%" /\ i + 2 <= Len(t) /\ IsHex(t[i + 1]) /\ IsHex(t[i + 2])}
    IN Concat([i \in 1..Len(t) |->
                  IF i \in escapes
                  THEN <<UnitOf(16 * HexValue(t[i + 1]) + HexValue(t[i + 2]))>>
                  ELSE IF (i - 1) \in escapes \/ (i - 2) \in escapes THEN <<>>
                  ELSE IF t[i] = "+" THEN <<" ">>
                  ELSE <<t[i]>>])

\* new URL(href).searchParams.get(name), for an href as new URL(href).href
\* writes it: the query goes from the first "?" to the fragment, which the
\* first "#" starts; the value is that of the first pair of the query with
\* the name, or null
SearchParam(href, name) ==
    LET hashes == {i \in DOMAIN href : href[i] = "#"}
        end == IF hashes = {} THEN Len(href)
               ELSE (CHOOSE i \in hashes : \A j \in hashes : i <= j) - 1
        marks == {i \in 1..end : href[i] = "?"}
        query == IF marks = {} THEN <<>>
                 ELSE SubSeq(href, (CHOOSE i \in marks : \A j \in marks : i <= j) + 1, end)
        parts == SelectSeq(SplitAt(query, "&"), LAMBDA part : part # <<>>)
        NameOf(part) == QueryDecode(SplitAt(part, "=")[1])
        ValueOf(part) == QueryDecode(SubSeq(part, Len(SplitAt(part, "=")[1]) + 2, Len(part)))
        named == {k \in DOMAIN parts : NameOf(parts[k]) = name}
    IN IF named = {} THEN Null
       ELSE Some(ValueOf(parts[CHOOSE k \in named : \A l \in named : k <= l]))

\* the request a calendar client makes for a URL, given as new URL(href).href
\* writes it
RequestOfUrl(href) ==
    [method |-> HandlerText.GET,
     teams |-> SearchParam(href, SubSeq(QueryText.teamsKey, 1, Len(QueryText.teamsKey) - 1)),
     format |-> SearchParam(href, SubSeq(QueryText.formatKey, 1, Len(QueryText.formatKey) - 1)),
     tournament |-> SearchParam(href, SubSeq(QueryText.tournamentKey, 1,
                                             Len(QueryText.tournamentKey) - 1)),
     reminder |-> SearchParam(href, SubSeq(QueryText.reminderKey, 1,
                                           Len(QueryText.reminderKey) - 1)),
     url |-> [origin |-> FixtureText.Origin, href |-> href]]

\* JSON.stringify of an array of strings: a quote, a backslash, a tab, a
\* line feed and a carriage return are written as their two-character
\* escapes, a surrogate without its other half as \uXXXX with digits in
\* lower case, and every other code unit of the model as it is
StringifySlugs(list) ==
    LET High == {"uD83C"}
        Low == {"uDDEA", "uDDFA"}
        Quote(t) ==
            LET Lone(i) == \/ t[i] \in High /\ ~(i < Len(t) /\ t[i + 1] \in Low)
                           \/ t[i] \in Low /\ ~(i > 1 /\ t[i - 1] \in High)
                Hex(n) == PageText.hexLower[n + 1]
                Written(i) ==
                    CASE t[i] = "\"" -> <<"\\", "\"">>
                      [] t[i] = "\\" -> <<"\\", "\\">>
                      [] t[i] = "\t" -> <<"\\", "t">>
                      [] t[i] = "\n" -> <<"\\", "n">>
                      [] t[i] = "\r" -> <<"\\", "r">>
                      [] Lone(i) -> <<"\\", "u", Hex(CodeUnit(t[i]) \div 4096),
                                     Hex((CodeUnit(t[i]) \div 256) % 16),
                                     Hex((CodeUnit(t[i]) \div 16) % 16), Hex(CodeUnit(t[i]) % 16)>>
                      [] OTHER -> <<t[i]>>
            IN <<"\"">> \o Concat([i \in DOMAIN t |-> Written(i)]) \o <<"\"">>
    IN <<"[">> \o join([i \in DOMAIN list |-> Quote(list[i])], <<",">>) \o <<"]">>

\* the page after init() with nothing in localStorage: no team is selected,
\* render() has loaded nothing and has saved the empty selection; the
\* reminder is parseInt of the fallback "30"
FreshPage ==
    [selectedSlugs |-> <<>>,
     teamDataCache |-> <<>>,
     activeTournamentFilter |-> [upcoming |-> Null, past |-> Null],
     countdownInterval |-> 0,
     reminderMinutes |-> parseInt(<<"3", "0">>),
     localStorage |-> [selectedTeams |-> Some(StringifySlugs(<<>>)), reminderMinutes |-> Null],
     now |-> 0,
     intervals |-> {},
     calls |-> EmptyBag,
     shown |-> [noTeams |-> TRUE, sections |-> FALSE, hero |-> Null,
                tags |-> [upcoming |-> {}, past |-> {}],
                upcoming |-> <<>>, past |-> <<>>]]

\* setReminder(minutes), for the number the listener hands over, NaN
\* included; renderSubscribeBar() writes the links only
setReminder(p, minutes) ==
    [p EXCEPT !.reminderMinutes = minutes,
              !.localStorage.reminderMinutes = Some(StringOfNumber(minutes))]

\* the values of the options chosen on the page: reminders, and an empty
\* value, which parseInt does not read
ReminderChoices ==
    {NumberToString(minutes) : minutes \in {0, 15, 30, 60, 1439, 1440}} \cup {<<>>}

\* the change listener of #reminder-select, for the value of the option that
\* is chosen: setReminder(parseInt(e.target.value, 10))
SetReminder(value) ==
    /\ page' = setReminder(page, parseInt(value))
    /\ UNCHANGED <<suspended, bucket, assets, pc, req, reminderMinutes, slugs,
                   idx, teamDataList, trace, resp, text, escaped>>

-----------------------------------------------------------------------------
(* The page: teams, leagues and the matches it loads.                        *)

\* the duration every match is given, in seconds: 2 * 60 * 60
MatchSeconds == 7200

\* the number of past matches handed to the past section
PastShown == 30

\* the calls of loadAndRenderMatches that may wait for a fetch at one time
MaxCalls == 2

\* the instants Date.now() takes, in seconds
PageClock == <<90000, 104400>>

\* manifest.teams of /data/teams.json: two teams with the flag of Europe
PageTeams ==
    <<[slug |-> <<"a">>, emoji |-> FixtureText.FlagEU],
      [slug |-> <<"B">>, emoji |-> FixtureText.FlagEU]>>

\* /data/a.json and /data/b.json.  Team a plays once: its match has not
\* started at the first instant of the clock and ends at the second.  Team B
\* has played the given number of matches and plays once more: that match
\* is on at the first instant and over at the second.
TeamFiles(played) ==
    [k \in {<<"a">> \o HandlerText.dotjson, <<"b">> \o HandlerText.dotjson} |->
        IF k = <<"a">> \o HandlerText.dotjson
        THEN [team |-> PageTeams[1],
              matches |-> <<[timestamp |-> 97200, opponent |-> <<"B">>, tournament |-> <<"T">>]>>]
        ELSE [team |-> PageTeams[2],
              matches |-> [i \in 1..played |->
                              [timestamp |-> 1000 * i, opponent |-> <<"c">>, tournament |-> <<"T">>]]
                          \o <<[timestamp |-> 86400, opponent |-> <<"c">>,
                                tournament |-> <<"U", " ", "-", " ", "D", "a", "y", " ", "2">>]>>]]

\* the files when team B has played once
PageObjects == TeamFiles(1)

\* EMOJI_REGIONS, then REGION_TO_LEAGUE, for the emoji of the teams above;
\* a team without a league goes to Other
LeagueOf(team) ==
    IF team.emoji = FixtureText.FlagEU THEN <<"L", "E", "C">> ELSE <<"O", "t", "h", "e", "r">>

\* leagueTeamMap after buildLeagueMapping: the slugs of every league that has
\* a team, in the order of manifest.teams
leagueTeamMap ==
    [name \in {LeagueOf(PageTeams[i]) : i \in DOMAIN PageTeams} |->
        LET members == SelectSeq(PageTeams, LAMBDA team : LeagueOf(team) = name)
        IN [i \in DOMAIN members |-> members[i].slug]]

\* what the page has of fetch("/data/" + key), which the /data function
\* answers with the object of the bucket, else with the static asset: the
\* data, when the answer is ok and json() reads it
DataResponse(key) ==
    IF ~IsPresent(bucket) THEN Null
    ELSE IF IsPresent(BucketGet(key))
    THEN (IF BucketGet(key)[1] = Unreadable THEN Null ELSE BucketGet(key))
    ELSE AssetsFetch(FixtureText.Origin \o HandlerText.dataPath \o key)

\* resp.ok of that answer, as a set of the values it can have.  The function
\* answers 200 with the body of the object DATA_BUCKET.get gives, and with
\* what ASSETS.fetch gives when there is no object; it has no answer that is
\* ok when get or fetch rejects.  An object that cannot be read either makes
\* get reject, or is answered with a body that json() rejects later
ResponseOk(key) ==
    IF ~IsPresent(bucket) THEN {FALSE}
    ELSE IF IsPresent(BucketGet(key))
    THEN (IF BucketGet(key)[1] = Unreadable THEN {TRUE, FALSE} ELSE {TRUE})
    ELSE LET assetUrl == FixtureText.Origin \o HandlerText.dataPath \o key
         IN IF assetUrl \notin DOMAIN assets THEN {FALSE}
            ELSE IF assets[assetUrl] = Unreadable THEN {TRUE, FALSE} ELSE {TRUE}

-----------------------------------------------------------------------------
(* loadAndRenderMatches.  A call that waits for a fetch is in the bag        *)
(* page.calls: the array it iterates (own, once selectedSlugs has been       *)
(* replaced by another array: what the iterator has yet to read of the array *)
(* the call started with; the array of selectedSlugs until then), the index  *)
(* the iterator reads next, the slug it fetches, its now and its two lists,  *)
(* and the await it is at: fetch(...), or resp.json() once the answer has    *)
(* come and is ok.  Each await returns to the event loop, and clicks, the    *)
(* interval and the clock have their turns between the two.                  *)

\* clearInterval(id)
clearInterval(p, id) == [p EXCEPT !.intervals = {t \in @ : t.id # id}]

\* setInterval: an id that no scheduled interval has.  countdownInterval is
\* the one place ids are kept, and it is written with every id made.
NewIntervalId(p) ==
    CHOOSE n \in 1..(Cardinality(p.intervals) + 1) :
        /\ \A t \in p.intervals : t.id # n
        /\ \A m \in 1..(n - 1) : \E t \in p.intervals : t.id = m

renderHero(p, upcoming) ==
    IF upcoming = <<>>
    THEN LET q == [p EXCEPT !.shown.hero = Null] IN
         IF p.countdownInterval # 0
         THEN [clearInterval(q, p.countdownInterval) EXCEPT !.countdownInterval = 0]
         ELSE q
    ELSE LET next == upcoming[1]
             timeSinceStart == p.now - next.timestamp
             isLive == timeSinceStart >= 0 /\ timeSinceStart < MatchSeconds
             q == IF p.countdownInterval # 0 THEN clearInterval(p, p.countdownInterval) ELSE p
             id == NewIntervalId(q)
         IN [q EXCEPT !.shown.hero = Some(next),
                      !.intervals = @ \cup {[id |-> id, next |-> next, isLive |-> isLive]},
                      !.countdownInterval = id]

\* { ...m, team: data.team }
Entry(m, team) ==
    [name \in DOMAIN m \cup {"team"} |-> IF name = "team" THEN team ELSE m[name]]

\* a match is upcoming until it starts
Collect_UntilStart(call, data) ==
    LET entries == [k \in DOMAIN data.matches |-> Entry(data.matches[k], data.team)]
        IsUpcoming(entry) == call.now < entry.timestamp
    IN [call EXCEPT !.allUpcoming = @ \o SelectSeq(entries, IsUpcoming),
                    !.allPast = @ \o SelectSeq(entries, LAMBDA entry : ~IsUpcoming(entry))]

\* the entries of data.matches go to one of the two lists of the call
Collect(call, data) ==
    LET entries == [k \in DOMAIN data.matches |-> Entry(data.matches[k], data.team)]
        IsUpcoming(entry) == call.now < entry.timestamp + MatchSeconds
    IN [call EXCEPT !.allUpcoming = @ \o SelectSeq(entries, IsUpcoming),
                    !.allPast = @ \o SelectSeq(entries, LAMBDA entry : ~IsUpcoming(entry))]

\* Array.prototype.sort(compare) for a compare that orders by one number:
\* the place of an element is the number of elements that compare puts before
\* it, those of equal order that stand before it included
sortByNumber(items, compared) ==
    LET place == [i \in DOMAIN items |->
                     1 + Cardinality({j \in DOMAIN items :
                                         \/ compared[j][i] < 0
                                         \/ compared[j][i] = 0 /\ j < i})]
    IN [k \in DOMAIN items |-> items[CHOOSE i \in DOMAIN items : place[i] = k]]

\* name.replace(/\s*-\s*(Week|Day|Round|Match\s*Day)\s*\d+.*$/i, "").trim():
\* the match is the leftmost one, which ends the name at the white space
\* before the first "-" that the rest of the pattern follows; trim() strips
\* that white space whether it is replaced or not.  After the number, ".*$"
\* has to reach the end of the name, and "." is no line terminator (of the
\* code units of the model: line feed and carriage return): a name with a
\* line terminator after the number is left as it is.
normalizeTournament(name) ==
    LET LineTerminators == {"\n", "\r"}
        After(i) == \* the first position from i on that holds no white space
            LET rest == {j \in i..Len(name) : name[j] \notin WhiteSpace}
            IN IF rest = {} THEN Len(name) + 1 ELSE CHOOSE j \in rest : \A l \in rest : j <= l
        Word(word, i) == i + Len(word) - 1 <= Len(name)
                         /\ toLowerCase(SubSeq(name, i, i + Len(word) - 1)) = word
        Numbered(i) == /\ After(i) <= Len(name)
                       /\ IsDigit(name[After(i)])
                       /\ \A j \in After(i)..Len(name) : name[j] \notin LineTerminators
        MatchesFrom(dash) ==
            LET k == After(dash + 1)
            IN \/ Word(<<"w", "e", "e", "k">>, k) /\ Numbered(k + 4)
               \/ Word(<<"d", "a", "y">>, k) /\ Numbered(k + 3)
               \/ Word(<<"r", "o", "u", "n", "d">>, k) /\ Numbered(k + 5)
               \/ /\ Word(<<"m", "a", "t", "c", "h">>, k)
                  /\ Word(<<"d", "a", "y">>, After(k + 5))
                  /\ Numbered(After(k + 5) + 3)
        dashes == {i \in 1..Len(name) : name[i] = "-" /\ MatchesFrom(i)}
    IN IF dashes = {} THEN trim(name)
       ELSE trim(SubSeq(name, 1, (CHOOSE i \in dashes : \A j \in dashes : i <= j) - 1))

\* esc(text): the text is made a text node and the node is serialized, which
\* writes "&", "<" and ">" as entities and leaves quotes as they are
esc(t) ==
    Concat([i \in DOMAIN t |->
               CASE t[i] = "&" -> XmlEntities.amp
                 [] t[i] = "<" -> XmlEntities.lt
                 [] t[i] = ">" -> XmlEntities.gt
                 [] OTHER -> <<t[i]>>])

\* what dataset gives for an attribute written as name="html" in a text
\* assigned to innerHTML: the parser ends the value at the first quote, reads
\* a carriage return, with the line feed after it if there is one, as a line
\* feed, and reads the entities back
AttributeValue(html) ==
    LET quotes == {i \in DOMAIN html : html[i] = "\""}
        end == IF quotes = {} THEN Len(html)
               ELSE (CHOOSE i \in quotes : \A j \in quotes : i <= j) - 1
        raw == SubSeq(html, 1, end)
        Named(i) == IF StartsAt(raw, XmlEntities.amp, i) THEN <<"&", Len(XmlEntities.amp)>>
                    ELSE IF StartsAt(raw, XmlEntities.lt, i) THEN <<"<", Len(XmlEntities.lt)>>
                    ELSE IF StartsAt(raw, XmlEntities.gt, i) THEN <<">", Len(XmlEntities.gt)>>
                    ELSE <<>>
        InEntity(i) == \E k \in 1..(i - 1) : Named(k) # <<>> /\ i < k + Named(k)[2]
    IN Concat([i \in DOMAIN raw |->
                  IF InEntity(i) THEN <<>>
                  ELSE IF Named(i) # <<>> THEN <<Named(i)[1]>>
                  ELSE IF raw[i] = "\r" THEN <<"\n">>
                  ELSE IF raw[i] = "\n" /\ i > 1 /\ raw[i - 1] = "\r" THEN <<>>
                  ELSE <<raw[i]>>])

\* the values of the tags renderMatchSection writes above a list, as the
\* click listener reads them from dataset.tournament: none for fewer than two
\* tournaments, else All (null) and, for every tournament, what the
\* attribute data-tournament="${esc(t)}" holds.  The tournaments are the keys
\* of tournamentCounts, an object literal, which never has the key __proto__.
FilterTags(matches) ==
    LET tournaments == {normalizeTournament(matches[k].tournament) : k \in DOMAIN matches}
                           \ {<<"_", "_", "p", "r", "o", "t", "o", "_", "_">>}
    IN IF Cardinality(tournaments) > 1
       THEN {Null} \cup {Some(AttributeValue(esc(t))) : t \in tournaments}
       ELSE {}

\* renderMatchSection(type, matches, isUpcoming): the tags are written from
\* the matches, and the cards from those of them the active filter keeps
renderMatchSection(p, type, matches) ==
    LET activeFilter == p.activeTournamentFilter[type]
        filtered == IF Truthy(activeFilter)
                    THEN SelectSeq(matches,
                                   LAMBDA m : normalizeTournament(m.tournament) = activeFilter[1])
                    ELSE matches
    IN [p EXCEPT !.shown.tags[type] = FilterTags(matches), !.shown[type] = filtered]

\* after the loop: both lists are sorted and handed to the document
ShowMatches(p, call) ==
    LET allUpcoming == sortByNumber(call.allUpcoming,
                            [i \in DOMAIN call.allUpcoming |-> [j \in DOMAIN call.allUpcoming |->
                                call.allUpcoming[i].timestamp - call.allUpcoming[j].timestamp]])
        allPast == sortByNumber(call.allPast,
                        [i \in DOMAIN call.allPast |-> [j \in DOMAIN call.allPast |->
                            call.allPast[j].timestamp - call.allPast[i].timestamp]])
        q == renderHero([p EXCEPT !.shown.sections = TRUE], allUpcoming)
    IN renderMatchSection(renderMatchSection(q, "upcoming", allUpcoming), "past",
                          SubSeq(allPast, 1, IF Len(allPast) < PastShown THEN Len(allPast)
                                             ELSE PastShown))

\* the loop from the position call.i on, up to the next fetch or to the end
RECURSIVE TurnsFrom(_, _)
TurnsFrom(p, call) ==
    LET list == IF IsPresent(call.own) THEN call.own[1] ELSE p.selectedSlugs IN
    IF call.i > Len(list) THEN ShowMatches(p, call)
    ELSE LET slug == list[call.i] IN
         IF slug \in DOMAIN p.teamDataCache
         THEN TurnsFrom(p, [Collect(call, p.teamDataCache[slug]) EXCEPT !.i = @ + 1])
         ELSE [p EXCEPT !.calls = @ (+) SetToBag({[call EXCEPT !.i = @ + 1, !.slug = slug,
                                                               !.at = "fetch"]})]

loadAndRenderMatches(p) ==
    IF Len(p.selectedSlugs) = 0 THEN p
    ELSE TurnsFrom(p, [own |-> Null, i |-> 1, slug |-> <<>>, at |-> "fetch", now |-> p.now,
                       allUpcoming |-> <<>>, allPast |-> <<>>])

\* await fetch(...) of a waiting call is over.  With an answer that is ok the
\* call waits again, at resp.json(), and nothing is read or written; with
\* any other answer, or none, data stays undefined and the loop goes on
AfterFetch(p, call, ok) ==
    LET rest == [p EXCEPT !.calls = @ (-) SetToBag({call})]
    IN IF ok
       THEN [rest EXCEPT !.calls = @ (+) SetToBag({[call EXCEPT !.at = "json"]})]
       ELSE TurnsFrom(rest, call)

\* await resp.json() of a waiting call is over: the data goes to the cache
\* and its matches to the lists, and the loop goes on; when json() has
\* rejected, data stays undefined
ResumeCall(p, call, answer) ==
    LET rest == [p EXCEPT !.calls = @ (-) SetToBag({call})]
    IN IF IsPresent(answer)
       THEN TurnsFrom([rest EXCEPT !.teamDataCache = (call.slug :> answer[1]) @@ @],
                      Collect(call, answer[1]))
       ELSE TurnsFrom(rest, call)

saveSelection(p) ==
    [p EXCEPT !.localStorage.selectedTeams = Some(StringifySlugs(p.selectedSlugs))]

updateNoTeamsState(p) ==
    IF Len(p.selectedSlugs) = 0
    THEN [p EXCEPT !.shown.noTeams = TRUE, !.shown.sections = FALSE]
    ELSE [p EXCEPT !.shown.noTeams = FALSE]

\* render(): the chips, the lists of teams and the subscribe bar are written
\* from the state and change none of it
render(p) == updateNoTeamsState(saveSelection(loadAndRenderMatches(p)))

-----------------------------------------------------------------------------
(* The actions of the page.  push and splice change the array of             *)
(* selectedSlugs, which a waiting call goes on reading; filter and [] make   *)
(* another array, and the waiting calls keep the one they started with.      *)

\* selectedSlugs is assigned another array
AssignSlugs(p, list) ==
    LET Kept(call) == IF IsPresent(call.own) THEN call
                      ELSE [call EXCEPT !.own = Some(SubSeq(p.selectedSlugs, call.i,
                                                            Len(p.selectedSlugs))),
                                        !.i = 1]
    IN [p EXCEPT !.selectedSlugs = list,
                 !.calls = [kept \in {Kept(call) : call \in BagToSet(p.calls)} |->
                               Cardinality({pair \in BagToSet(p.calls) \X (1..BagCardinality(p.calls)) :
                                               Kept(pair[1]) = kept /\ pair[2] <= p.calls[pair[1]]})]]

ResetAndRender(p) ==
    render([p EXCEPT !.activeTournamentFilter = [upcoming |-> Null, past |-> Null],
                     !.teamDataCache = <<>>])

\* a toggleTeam that adds the slug whether it is selected or not
toggleTeam_AlwaysPush(p, slug) ==
    ResetAndRender([p EXCEPT !.selectedSlugs = Append(@, slug)])

toggleTeam(p, slug) ==
    LET found == {i \in DOMAIN p.selectedSlugs : p.selectedSlugs[i] = slug}
        at == IF found = {} THEN -1 ELSE (CHOOSE i \in found : \A j \in found : i <= j) - 1
    IN ResetAndRender(
           IF at >= 0
           THEN [p EXCEPT !.selectedSlugs = SubSeq(@, 1, at) \o SubSeq(@, at + 2, Len(@))]
           ELSE [p EXCEPT !.selectedSlugs = Append(@, slug)])

addAllLeague(p, leagueName) ==
    LET teams == IF leagueName \in DOMAIN leagueTeamMap THEN leagueTeamMap[leagueName] ELSE <<>>
        selectedSet == Range(p.selectedSlugs)
        allInLeagueSelected == \A i \in DOMAIN teams : teams[i] \in selectedSet
    IN ResetAndRender(
           IF allInLeagueSelected
           THEN AssignSlugs(p, SelectSeq(p.selectedSlugs, LAMBDA s : s \notin Range(teams)))
           ELSE [p EXCEPT !.selectedSlugs = @ \o SelectSeq(teams, LAMBDA s : s \notin selectedSet)])

\* toggleLeague returns at once for a league without teams and is
\* addAllLeague, statement by statement, for every other
toggleLeague(p, leagueName) ==
    LET teams == IF leagueName \in DOMAIN leagueTeamMap THEN leagueTeamMap[leagueName] ELSE <<>>
    IN IF Len(teams) = 0 THEN p ELSE addAllLeague(p, leagueName)

clearAll(p) == ResetAndRender(AssignSlugs(p, <<>>))

setTournamentFilter(p, type, tournament) ==
    loadAndRenderMatches([p EXCEPT !.activeTournamentFilter[type] = tournament])

\* the function renderHero hands to setInterval, for the interval t
IntervalCallback(p, t) ==
    LET remaining == t.next.timestamp - p.now
        currentTimeSinceStart == p.now - t.next.timestamp
        currentIsLive == currentTimeSinceStart >= 0 /\ currentTimeSinceStart < MatchSeconds
        reload == loadAndRenderMatches(clearInterval(p, p.countdownInterval))
    IN IF t.isLive
       THEN IF currentTimeSinceStart >= MatchSeconds THEN reload ELSE p
       ELSE IF ~IsPresent(p.shown.hero) THEN clearInterval(p, p.countdownInterval)
       ELSE IF currentIsLive THEN p
       ELSE IF remaining <= 0 /\ currentTimeSinceStart >= MatchSeconds THEN reload
       ELSE p

-----------------------------------------------------------------------------
(* The page as a state machine: clicks, answers to fetches, the interval and *)
(* the clock.                                                                *)

InitPage ==
    /\ bucket = Some(PageObjects)
    /\ assets = <<>>
    /\ pc = "idle"
    /\ req = NoRequest
    /\ reminderMinutes = 30
    /\ slugs = <<>>
    /\ idx = 0
    /\ teamDataList = <<>>
    /\ trace = <<>>
    /\ resp = NoResponse
    /\ suspended = EmptyBag
    /\ text = <<>>
    /\ escaped = <<>>
    /\ page = [FreshPage EXCEPT !.now = PageClock[1]]

PageStep(p) ==
    /\ page' = p
    /\ UNCHANGED <<suspended, bucket, assets, pc, req, reminderMinutes, slugs,
                   idx, teamDataList, trace, resp, text, escaped>>

HasRoom == BagCardinality(page.calls) < MaxCalls

ToggleTeam(slug) == HasRoom /\ PageStep(toggleTeam(page, slug))

ToggleLeague(leagueName) == HasRoom /\ PageStep(toggleLeague(page, leagueName))

AddAllLeague(leagueName) == HasRoom /\ PageStep(addAllLeague(page, leagueName))

ClearAll == PageStep(clearAll(page))

\* a click on a tag of a list that is on display: the listener hands
\* dataset.tournament || null to setTournamentFilter
SetTournamentFilter(type, tournament) ==
    /\ HasRoom
    /\ page.shown.sections
    /\ tournament \in page.shown.tags[type]
    /\ PageStep(setTournamentFilter(page, type, IF Truthy(tournament) THEN tournament ELSE Null))

\* the answer to the fetch of a waiting call arrives
FetchResolves(call) ==
    /\ call.at = "fetch"
    /\ \E ok \in ResponseOk(toLowerCase(call.slug) \o HandlerText.dotjson) :
           PageStep(AfterFetch(page, call, ok))

\* resp.json() of a waiting call settles
JsonResolves(call) ==
    /\ call.at = "json"
    /\ PageStep(ResumeCall(page, call, DataResponse(toLowerCase(call.slug) \o HandlerText.dotjson)))

IntervalFires(t) == HasRoom /\ PageStep(IntervalCallback(page, t))

Tick ==
    \E i \in 1..(Len(PageClock) - 1) :
        /\ page.now = PageClock[i]
        /\ PageStep([page EXCEPT !.now = PageClock[i + 1]])

NextPage ==
    \/ \E i \in DOMAIN PageTeams : ToggleTeam(PageTeams[i].slug)
    \/ \E leagueName \in DOMAIN leagueTeamMap : ToggleLeague(leagueName)
    \/ \E leagueName \in DOMAIN leagueTeamMap : AddAllLeague(leagueName)
    \/ ClearAll
    \/ \E type \in {"upcoming", "past"} :
           \E tournament \in page.shown.tags[type] : SetTournamentFilter(type, tournament)
    \/ \E call \in BagToSet(page.calls) : FetchResolves(call)
    \/ \E call \in BagToSet(page.calls) : JsonResolves(call)
    \/ \E t \in page.intervals : IntervalFires(t)
    \/ \E value \in {NumberToString(15), <<>>} : SetReminder(value)
    \/ Tick

SpecPage == InitPage /\ [][NextPage]_vars

-----------------------------------------------------------------------------
(* The subscribe link: the reminder is chosen on the page, and a calendar    *)
(* client asks the endpoint for the URL the page shows.                      *)

\* the page after init() with a selection in localStorage: render() has
\* started a call of loadAndRenderMatches, which waits for its first fetch
InitSubscribe ==
    /\ bucket = Some(BucketObjects)
    /\ assets = AssetFiles
    /\ pc = "idle"
    /\ req = NoRequest
    /\ reminderMinutes = 30
    /\ slugs = <<>>
    /\ idx = 0
    /\ teamDataList = <<>>
    /\ trace = <<>>
    /\ resp = NoResponse
    /\ suspended = EmptyBag
    /\ text = <<>>
    /\ escaped = <<>>
    /\ page \in {render([FreshPage EXCEPT !.selectedSlugs = sel,
                                          !.localStorage.selectedTeams = Some(StringifySlugs(sel))]) :
                    sel \in {<<FixtureText.Fnatic>>, <<FixtureText.Fnatic, FixtureText.G2Slug>>}}

\* the client requests the URL of #subscribe-url
Subscribe == \E r \in Arriving({RequestOfUrl(buildCalendarUrl(page))}) : Receive(r)

\* the bucket holds the teams of the page, so ASSETS is not asked; the clock
\* of the page stands before every match
NextSubscribe ==
    \/ \E value \in ReminderChoices : SetReminder(value)
    \/ Subscribe
    \/ \E call \in BagToSet(page.calls) : FetchResolves(call)
    \/ \E call \in BagToSet(page.calls) : JsonResolves(call)
    \/ \E t \in page.intervals : IntervalFires(t)
    \/ AwaitBucketGet("parsed")
    \/ AwaitObjectJson("parsed")
    \/ Return

SpecSubscribe == InitSubscribe /\ [][NextSubscribe]_vars

\* the numbers in 0..1440 that the options of this page give
InRange == {n \in {parseInt(value) : value \in ReminderChoices} : ~n.nan /\ n.value \in 0..1440}

\* the request was made from a link that this page shows for such a number
AskedInRange == \E n \in InRange : req.url.href = buildCalendarUrl(setReminder(page, n))

(* C27: for every r in 0..1440, after setReminder(r) the URL the page shows  *)
(* holds no reminder parameter when r is 30 and ends with reminder=r, in     *)
(* decimal digits, for every other r, and the endpoint passes the request    *)
(* for that URL on to its loads with the reminder r; whenever the reminder   *)
(* of the page is such an r, the URL it shows has that form, and a request   *)
(* for it is accepted and read as r at that moment; when the endpoint has    *)
(* answered such a request, the answer is a calendar rendered with the       *)
(* reminder it read, whatever is chosen on the page in the meantime.         *)
C27_SubscribeUrlCarriesReminder ==
    /\ [](/\ (pc = "idle" /\ page.localStorage.reminderMinutes = Null) =>
                \A r \in 0..1440 :
                    LET chosen == setReminder(page, parseInt(NumberToString(r)))
                        href == buildCalendarUrl(chosen)
                        tail == PageText.reminderParam \o NumberToString(r)
                        started == onRequest(RequestOfUrl(href))
                    IN /\ chosen.reminderMinutes = [nan |-> FALSE, value |-> r]
                       /\ IF r = 30
                          THEN ~includes(href, PageText.reminderParam)
                          ELSE SubSeq(href, Len(href) - Len(tail) + 1, Len(href)) = tail
                       /\ started.pc = "DATA_BUCKET.get"
                       /\ started.reminderMinutes = r
          /\ page.reminderMinutes \in InRange =>
                LET href == buildCalendarUrl(page)
                    tail == PageText.reminderParam \o NumberToString(page.reminderMinutes.value)
                IN IF page.reminderMinutes.value = 30
                   THEN ~includes(href, PageText.reminderParam)
                   ELSE SubSeq(href, Len(href) - Len(tail) + 1, Len(href)) = tail
          /\ (pc = "done" /\ AskedInRange) =>
                LET events == ResponseEvents
                    alarmed == {k \in DOMAIN events : HasAlarm(events[k])}
                IN /\ IcsRendered
                   /\ RendererCalls = <<[op |-> "generateICS",
                                         arg |-> NumberToString(reminderMinutes)]>>
                   /\ \A k \in alarmed : AlarmWithTrigger(events[k], reminderMinutes)
                   /\ reminderMinutes = 0 => alarmed = {}
                   /\ Len(teamDataList) = Len(page.selectedSlugs))
    /\ [][(Subscribe /\ page.reminderMinutes \in InRange) =>
              /\ req'.url.href = buildCalendarUrl(page)
              /\ pc' = "DATA_BUCKET.get"
              /\ reminderMinutes' = page.reminderMinutes.value]_vars

\* the calendar of two teams for the reminder 1439, which was chosen on the
\* page when the client asked; 15 has been chosen since
C27_Witness ==
    /\ pc = "done"
    /\ IcsRendered
    /\ AskedInRange
    /\ reminderMinutes = 1439
    /\ page.reminderMinutes = [nan |-> FALSE, value |-> 15]
    /\ Len(page.selectedSlugs) = 2
    /\ \E k \in DOMAIN ResponseEvents : AlarmWithTrigger(ResponseEvents[k], 1439)

-----------------------------------------------------------------------------
\* the backslashes that stand in a row right before position i of t
SlashesBefore(t, i) ==
    LET others == {j \in 1..(i - 1) : t[j] # "\\"}
    IN IF others = {} THEN i - 1 ELSE i - 1 - (CHOOSE j \in others : \A l \in others : l <= j)

\* the string a JSON string literal stands for, given what is between its
\* quotes: \", \\, \t, \n, \r and \uXXXX are escapes
JsonUnescape(t) ==
    LET starts == {i \in DOMAIN t : t[i] = "\\" /\ SlashesBefore(t, i) % 2 = 0}
        Long(i) == i \in starts /\ t[i + 1] = "u"
        Read(i) ==
            CASE t[i + 1] = "t" -> "\t"
              [] t[i + 1] = "n" -> "\n"
              [] t[i + 1] = "r" -> "\r"
              [] t[i + 1] = "u" -> UnitOf(4096 * HexValue(t[i + 2]) + 256 * HexValue(t[i + 3])
                                            + 16 * HexValue(t[i + 4]) + HexValue(t[i + 5]))
              [] OTHER -> t[i + 1]
    IN Concat([i \in DOMAIN t |->
                  IF i \in starts THEN <<Read(i)>>
                  ELSE IF (i - 1) \in starts \/ \E k \in 2..5 : i - k >= 1 /\ Long(i - k) THEN <<>>
                  ELSE <<t[i]>>])

\* JSON.parse of the text JSON.stringify writes for an array of strings: a
\* string goes from a quote to the next quote that no escape holds
ParseSlugs(stored) ==
    LET quotes == Ascending({i \in DOMAIN stored :
                                stored[i] = "\"" /\ SlashesBefore(stored, i) % 2 = 0})
    IN [k \in 1..(Len(quotes) \div 2) |->
           JsonUnescape(SubSeq(stored, quotes[2 * k - 1] + 1, quotes[2 * k] - 1))]

NoSlugTwice(list) == \A i, j \in DOMAIN list : list[i] = list[j] => i = j

\* the step is a call of toggleTeam, toggleLeague, addAllLeague or clearAll
SelectionStep ==
    \/ \E i \in DOMAIN PageTeams : ToggleTeam(PageTeams[i].slug)
    \/ \E leagueName \in DOMAIN leagueTeamMap : ToggleLeague(leagueName)
    \/ \E leagueName \in DOMAIN leagueTeamMap : AddAllLeague(leagueName)
    \/ ClearAll

(* C30: a step of toggleTeam, toggleLeague, addAllLeague or clearAll from a  *)
(* selection that holds no slug twice ends with a selection that holds no    *)
(* slug twice, with both tournament filters null, with an empty              *)
(* teamDataCache, and with the text under selectedTeams in localStorage      *)
(* reading back as selectedSlugs.                                            *)
C30_SelectionActionsKeepState ==
    [][(SelectionStep /\ NoSlugTwice(page.selectedSlugs)) =>
           /\ NoSlugTwice(page'.selectedSlugs)
           /\ page'.activeTournamentFilter = [upcoming |-> Null, past |-> Null]
           /\ DOMAIN page'.teamDataCache = {}
           /\ IsPresent(page'.localStorage.selectedTeams)
           /\ ParseSlugs(page'.localStorage.selectedTeams[1]) = page'.selectedSlugs]_vars

\* team a has been taken out of the selection a, B while both teams were on
\* display: B is what is selected and stored, nothing is cached and a call
\* loads B
C30_Witness ==
    /\ page.selectedSlugs = <<PageTeams[2].slug>>
    /\ page.shown.sections
    /\ {page.shown.upcoming[k].team.slug : k \in DOMAIN page.shown.upcoming}
           = {PageTeams[1].slug, PageTeams[2].slug}
    /\ page.activeTournamentFilter = [upcoming |-> Null, past |-> Null]
    /\ DOMAIN page.teamDataCache = {}
    /\ page.localStorage.selectedTeams = Some(<<"[", "\"", "B", "\"", "]">>)
    /\ BagCardinality(page.calls) = 1

-----------------------------------------------------------------------------
\* a match of a list, with the slug of its team
PairOf(entry) ==
    [slug |-> entry.team.slug, timestamp |-> entry.timestamp, tournament |-> entry.tournament]

\* the matches on the cards of the two lists
ShownPairs == {PairOf(entry) : entry \in Range(page.shown.upcoming) \cup Range(page.shown.past)}

\* the matches of the files of the teams that are selected
SelectedPairs ==
    UNION {LET answer == DataResponse(toLowerCase(slug) \o HandlerText.dotjson)
           IN IF IsPresent(answer)
              THEN {PairOf(Entry(answer[1].matches[k], answer[1].team)) :
                       k \in DOMAIN answer[1].matches}
              ELSE {} :
           slug \in Range(page.selectedSlugs)}

\* no tournament filter that is set leaves the match out
PassesFilters(pair) ==
    \A type \in {"upcoming", "past"} :
        Truthy(page.activeTournamentFilter[type])
            => normalizeTournament(pair.tournament) = page.activeTournamentFilter[type][1]

(* C28: when no call of loadAndRenderMatches waits for a fetch, the two      *)
(* sections are hidden if no team is selected, and otherwise they are on     *)
(* display, their cards show matches of the selected teams and no other      *)
(* match, and every match of the selected teams that no tournament filter    *)
(* leaves out is on a card.                                                  *)
C28_DisplayFollowsSelection ==
    BagCardinality(page.calls) = 0 =>
        IF Len(page.selectedSlugs) = 0
        THEN ~page.shown.sections
        ELSE /\ page.shown.sections
             /\ ShownPairs \subseteq SelectedPairs
             /\ \A pair \in SelectedPairs : PassesFilters(pair) => pair \in ShownPairs

-----------------------------------------------------------------------------
\* the matches of the selected teams that have not ended
OpenPairs ==
    {pair \in SelectedPairs : page.now < pair.timestamp + MatchSeconds}

(* C29: at most one interval is scheduled; an interval that is scheduled     *)
(* was made for a match of a selected team that has not ended, and no other  *)
(* such match starts earlier; no interval is scheduled while no team is      *)
(* selected.                                                                 *)
C29_OneCountdownForNextMatch ==
    /\ Cardinality(page.intervals) <= 1
    /\ \A t \in page.intervals :
          /\ PairOf(t.next) \in OpenPairs
          /\ \A pair \in OpenPairs : t.next.timestamp <= pair.timestamp
    /\ Len(page.selectedSlugs) = 0 => page.intervals = {}

-----------------------------------------------------------------------------
(* The page used without haste: a click or a turn of the interval comes when *)
(* no call waits for a fetch; the reminder is chosen at any moment.  Team B  *)
(* has played 31 matches.                                                    *)

InitMatches ==
    /\ bucket = Some(TeamFiles(PastShown + 1))
    /\ assets = <<>>
    /\ pc = "idle"
    /\ req = NoRequest
    /\ reminderMinutes = 30
    /\ slugs = <<>>
    /\ idx = 0
    /\ teamDataList = <<>>
    /\ trace = <<>>
    /\ resp = NoResponse
    /\ suspended = EmptyBag
    /\ text = <<>>
    /\ escaped = <<>>
    /\ page = [FreshPage EXCEPT !.now = PageClock[1]]

NextMatches ==
    \/ \E i \in DOMAIN PageTeams : page.calls = EmptyBag /\ ToggleTeam(PageTeams[i].slug)
    \/ \E leagueName \in DOMAIN leagueTeamMap : page.calls = EmptyBag /\ ToggleLeague(leagueName)
    \/ \E leagueName \in DOMAIN leagueTeamMap : page.calls = EmptyBag /\ AddAllLeague(leagueName)
    \/ page.calls = EmptyBag /\ ClearAll
    \/ \E type \in {"upcoming", "past"} :
           \E tournament \in page.shown.tags[type] :
               page.calls = EmptyBag /\ SetTournamentFilter(type, tournament)
    \/ \E t \in page.intervals : page.calls = EmptyBag /\ IntervalFires(t)
    \/ \E call \in BagToSet(page.calls) : FetchResolves(call)
    \/ \E call \in BagToSet(page.calls) : JsonResolves(call)
    \/ \E value \in {NumberToString(15), <<>>} : SetReminder(value)
    \/ Tick

SpecMatches == InitMatches /\ [][NextMatches]_vars

-----------------------------------------------------------------------------
(* The page used in two ways.  In haste, with the files in which team B has  *)
(* played once: clicks and turns of the interval come while calls wait at    *)
(* fetch or at resp.json(), all within one second of the clock.  Without     *)
(* haste, with the files in which team B has played 31 matches: a click or a *)
(* turn of the interval comes when no call waits, and the clock advances at  *)
(* any moment, also while a call waits.                                      *)

InitLoads ==
    /\ bucket \in {Some(PageObjects), Some(TeamFiles(PastShown + 1))}
    /\ assets = <<>>
    /\ pc = "idle"
    /\ req = NoRequest
    /\ reminderMinutes = 30
    /\ slugs = <<>>
    /\ idx = 0
    /\ teamDataList = <<>>
    /\ trace = <<>>
    /\ resp = NoResponse
    /\ suspended = EmptyBag
    /\ text = <<>>
    /\ escaped = <<>>
    /\ page = [FreshPage EXCEPT !.now = PageClock[1]]

InHaste == bucket = Some(PageObjects)

\* the user acts now: at any moment in haste, else when no call waits
MayAct == InHaste \/ page.calls = EmptyBag

NextLoads ==
    \/ \E i \in DOMAIN PageTeams : MayAct /\ ToggleTeam(PageTeams[i].slug)
    \/ \E leagueName \in DOMAIN leagueTeamMap : MayAct /\ ToggleLeague(leagueName)
    \/ \E leagueName \in DOMAIN leagueTeamMap : MayAct /\ AddAllLeague(leagueName)
    \/ MayAct /\ ClearAll
    \/ \E type \in {"upcoming", "past"} :
           \E tournament \in page.shown.tags[type] :
               MayAct /\ SetTournamentFilter(type, tournament)
    \/ \E t \in page.intervals : MayAct /\ IntervalFires(t)
    \/ \E call \in BagToSet(page.calls) : FetchResolves(call)
    \/ \E call \in BagToSet(page.calls) : JsonResolves(call)
    \/ ~InHaste /\ Tick

SpecLoads == InitLoads /\ [][NextLoads]_vars

\* the matches of the file of a team, as loadAndRenderMatches takes them
FileEntries(slug) ==
    LET answer == DataResponse(toLowerCase(slug) \o HandlerText.dotjson)
    IN IF IsPresent(answer)
       THEN [k \in DOMAIN answer[1].matches |-> Entry(answer[1].matches[k], answer[1].team)]
       ELSE <<>>

\* the cards renderMatchSection writes for a list: the matches of the list
\* that the tournament filter keeps, when one is set
KeptBy(list, filter) ==
    SelectSeq(list, LAMBDA e : Truthy(filter) => normalizeTournament(e.tournament) = filter[1])

\* how often the list holds the entry
Times(list, e) == Cardinality({k \in DOMAIN list : list[k] = e})

\* the page shows the two lists of a call that has ended: the upcoming list
\* in ascending order of timestamp; of the past list, in descending order,
\* the 30 entries with the greatest timestamps, or all if they are fewer
\* (of entries with the 30th greatest timestamp, as many as fit); of both,
\* the entries of the chosen tournament when a tournament filter is set; no
\* match is in both
ShowsLists(q, upcoming, past) ==
    LET shownUpcoming == q.shown.upcoming
        shownPast == q.shown.past
        keptUpcoming == KeptBy(upcoming, q.activeTournamentFilter.upcoming)
        AsRecent(e) == Cardinality({k \in DOMAIN past : past[k].timestamp >= e.timestamp})
        MoreRecent(e) == Cardinality({k \in DOMAIN past : past[k].timestamp > e.timestamp})
        surely == KeptBy(SelectSeq(past, LAMBDA e : AsRecent(e) <= PastShown),
                         q.activeTournamentFilter.past)
        atMost == KeptBy(SelectSeq(past, LAMBDA e : MoreRecent(e) < PastShown),
                         q.activeTournamentFilter.past)
    IN /\ q.shown.sections
       /\ \A e \in Range(shownUpcoming) \cup Range(keptUpcoming) :
              Times(shownUpcoming, e) = Times(keptUpcoming, e)
       /\ \A i, j \in DOMAIN shownUpcoming :
              i < j => shownUpcoming[i].timestamp <= shownUpcoming[j].timestamp
       /\ \A e \in Range(shownPast) \cup Range(atMost) :
              /\ Times(shownPast, e) >= Times(surely, e)
              /\ Times(shownPast, e) <= Times(atMost, e)
       /\ \A i, j \in DOMAIN shownPast : i < j => shownPast[i].timestamp >= shownPast[j].timestamp
       /\ ~Truthy(q.activeTournamentFilter.past) =>
              Len(shownPast) = IF Len(past) < PastShown THEN Len(past) ELSE PastShown
       /\ Range(shownUpcoming) \cap Range(shownPast) = {}

\* a turn of a call of loadAndRenderMatches has left the page as q.  The
\* call read now at its start, held the two lists when the turn began, took
\* the entries first from the data of its fetch, and went on to read the
\* array list from the index from, with the array own in its record; others
\* is the number of the other calls that wait.  Every entry the turn loaded,
\* from the answer and from the cache for every team up to the first whose
\* file is not in the cache, went to the end of the upcoming list if
\* now < timestamp + 7200 and to the end of the past list otherwise.  The
\* call then waits for the file of that team with the two lists, or, the
\* array read to its end, the page shows the two lists.
PlacesByEnd(q, others, own, list, from, now, upcoming0, past0, first) ==
    LET missing == {k \in from..Len(list) : list[k] \notin DOMAIN q.teamDataCache}
        stop == IF missing = {} THEN Len(list) + 1
                ELSE CHOOSE k \in missing : \A l \in missing : k <= l
        loaded == first \o Concat([k \in 1..(stop - from) |-> FileEntries(list[from + k - 1])])
        IsOpen(e) == now < e.timestamp + MatchSeconds
        upcoming == upcoming0 \o SelectSeq(loaded, IsOpen)
        past == past0 \o SelectSeq(loaded, LAMBDA e : ~IsOpen(e))
    IN IF stop <= Len(list)
       THEN /\ [own |-> own, i |-> stop + 1, slug |-> list[stop], at |-> "fetch", now |-> now,
                allUpcoming |-> upcoming, allPast |-> past] \in BagToSet(q.calls)
            /\ BagCardinality(q.calls) = others + 1
       ELSE /\ BagCardinality(q.calls) = others
            /\ ShowsLists(q, upcoming, past)

\* the step calls loadAndRenderMatches: a click on a team, on a league or on
\* a tag, or a turn of the interval of a match that has ended
CallStarts ==
    \/ \E i \in DOMAIN PageTeams : ToggleTeam(PageTeams[i].slug)
    \/ \E leagueName \in DOMAIN leagueTeamMap :
           ToggleLeague(leagueName) \/ AddAllLeague(leagueName)
    \/ \E type \in {"upcoming", "past"} :
           \E tournament \in page.shown.tags[type] : SetTournamentFilter(type, tournament)
    \/ \E t \in page.intervals :
           /\ IntervalFires(t)
           /\ page.now - t.next.timestamp >= MatchSeconds
           /\ t.isLive \/ IsPresent(page.shown.hero)

(* C25: in every turn of every call of loadAndRenderMatches, whether other   *)
(* calls wait or the selection has changed since the call began (a turn      *)
(* begins with the click that makes the call, with resp.json() settled, or   *)
(* with an answer that is not ok; an answer that is ok changes nothing but   *)
(* the await the call is at), each match                                     *)
(* the turn loads goes to exactly one of the two lists of the call: to the   *)
(* upcoming list if and only if now < timestamp + 7200, for the now the call *)
(* read at its start, otherwise to the past list.  When the call ends, the   *)
(* page shows its upcoming list in ascending order of timestamp and, in      *)
(* descending order, the 30 matches of its past list with the greatest       *)
(* timestamps, or all of them if they are fewer; a list with a tournament    *)
(* filter shows its matches of that tournament.  (A call that resumes is no  *)
(* longer at the await it was at, so the calls whose record the step has     *)
(* taken are the ones to look at.)                                           *)
C25_TwoListsByEndOfMatch ==
    [][/\ \A call \in {c \in BagToSet(page.calls) :
                         CopiesIn(c, page'.calls) < CopiesIn(c, page.calls)} :
              /\ FetchResolves(call) =>
                     \/ /\ TRUE \in ResponseOk(toLowerCase(call.slug) \o HandlerText.dotjson)
                        /\ page' = [page EXCEPT !.calls = (@ (-) SetToBag({call}))
                                                 (+) SetToBag({[call EXCEPT !.at = "json"]})]
                     \/ /\ FALSE \in ResponseOk(toLowerCase(call.slug) \o HandlerText.dotjson)
                        /\ PlacesByEnd(page', BagCardinality(page.calls) - 1, call.own,
                                       IF IsPresent(call.own) THEN call.own[1]
                                       ELSE page.selectedSlugs,
                                       call.i, call.now, call.allUpcoming, call.allPast, <<>>)
              /\ JsonResolves(call) =>
                     PlacesByEnd(page', BagCardinality(page.calls) - 1, call.own,
                                 IF IsPresent(call.own) THEN call.own[1] ELSE page.selectedSlugs,
                                 call.i, call.now, call.allUpcoming, call.allPast,
                                 FileEntries(call.slug))
       /\ (CallStarts /\ Len(page'.selectedSlugs) > 0) =>
              PlacesByEnd(page', BagCardinality(page.calls), Null, page'.selectedSlugs,
                          1, page.now, <<>>, <<>>, <<>>)]_vars

\* a call that was overtaken has ended while another waits: it began when
\* team a alone was selected, the array has since held B and holds a in the
\* second place, and the call has read the file of a twice; the match of a
\* is twice in the upcoming list, and in no other list
C25_Witness ==
    /\ page.calls # EmptyBag
    /\ page.shown.sections
    /\ Len(page.shown.upcoming) = 2
    /\ page.shown.upcoming[1] = page.shown.upcoming[2]
    /\ page.shown.upcoming[1].team.slug = PageTeams[1].slug
    /\ page.now < page.shown.upcoming[1].timestamp + MatchSeconds
    /\ page.shown.past = <<>>

====
